---- MODULE Spec2Model ----
(***************************************************************************)
(* Metio: the FAO-56 radiation balance of met/fao.py, the National         *)
(* Engineering Handbook effective precipitation of met/utils/wudr_analysis *)
(* and utils/polygon_met, and the Agrimet station client of                *)
(* met/agrimet.py.                                                         *)
(*                                                                         *)
(* The code computes in IEEE-754 doubles through numpy.  The model         *)
(* computes in decimal fixed point: the integer n stands for the real      *)
(* number n / FP.  Three integers outside the fixed-point range stand for  *)
(* the non-finite doubles NaN, +inf and -inf, and every arithmetic         *)
(* operator treats them as numpy does (invalid operations give NaN and     *)
(* raise nothing).                                                         *)
(***************************************************************************)
EXTENDS Integers, Sequences, FiniteSets, TLC

\* ------------------------------------------------------------------------
\* Fixed-point numbers
\* ------------------------------------------------------------------------

\* The fixed-point scale: four decimal places.
FP == 100 * 100

\* The largest magnitude of a finite number of the model.
MaxFix == 2000 * 1000 * 1000

\* The non-finite doubles.
NaN == 0 - (MaxFix + 3)
PosInf == MaxFix + 1
NegInf == 0 - (MaxFix + 1)

IsNaN(x) == x = NaN
IsInf(x) == x = PosInf \/ x = NegInf
IsFinite(x) == ~IsNaN(x) /\ ~IsInf(x)

Abs(x) == IF x < 0 THEN 0 - x ELSE x
Sgn(x) == IF x < 0 THEN 0 - 1 ELSE IF x > 0 THEN 1 ELSE 0

\* Comparisons of doubles: every comparison with NaN is false.
Le(a, b) == ~IsNaN(a) /\ ~IsNaN(b) /\ a <= b
Lt(a, b) == ~IsNaN(a) /\ ~IsNaN(b) /\ a < b

\* a * b of two finite numbers, rounded to the nearest fixed-point number.
\* The operands are split so that no intermediate product leaves 32 bits.
MulFP(a, b) ==
    LET ah == a \div FP
        al == a % FP
        bh == b \div FP
        bl == b % FP
    IN  ah * bh * FP + ah * bl + al * bh + ((al * bl + FP \div 2) \div FP)

\* a / b of two finite numbers, b # 0, truncated toward zero: long division,
\* two decimal digits at a time.
DivFP(a, b) ==
    LET n == Abs(a)
        d == Abs(b)
        q0 == n \div d
        r0 == n % d
        q1 == (r0 * 100) \div d
        r1 == (r0 * 100) % d
        q2 == (r1 * 100) \div d
    IN  Sgn(a) * Sgn(b) * (q0 * FP + q1 * 100 + q2)

\* Float addition, subtraction, multiplication and division.
Add(a, b) ==
    IF IsNaN(a) \/ IsNaN(b) THEN NaN
    ELSE IF IsInf(a) /\ IsInf(b) THEN (IF a = b THEN a ELSE NaN)
    ELSE IF IsInf(a) THEN a
    ELSE IF IsInf(b) THEN b
    ELSE a + b

Neg(a) ==
    IF IsNaN(a) THEN NaN
    ELSE IF a = PosInf THEN NegInf
    ELSE IF a = NegInf THEN PosInf
    ELSE 0 - a

Sub(a, b) == Add(a, Neg(b))

Mul(a, b) ==
    IF IsNaN(a) \/ IsNaN(b) THEN NaN
    ELSE IF IsInf(a) \/ IsInf(b)
         THEN (IF a = 0 \/ b = 0 THEN NaN
               ELSE IF Sgn(a) * Sgn(b) > 0 THEN PosInf ELSE NegInf)
    ELSE MulFP(a, b)

Div(a, b) ==
    IF IsNaN(a) \/ IsNaN(b) THEN NaN
    ELSE IF IsInf(a) /\ IsInf(b) THEN NaN
    ELSE IF IsInf(a) THEN (IF Sgn(a) * Sgn(b) < 0 THEN NegInf ELSE PosInf)
    ELSE IF IsInf(b) THEN 0
    ELSE IF b = 0
         THEN (IF a = 0 THEN NaN ELSE IF a > 0 THEN PosInf ELSE NegInf)
    ELSE DivFP(a, b)

\* numpy.minimum and numpy.maximum: a NaN operand gives NaN.
minimum(a, b) ==
    IF IsNaN(a) \/ IsNaN(b) THEN NaN ELSE IF a <= b THEN a ELSE b

maximum(a, b) ==
    IF IsNaN(a) \/ IsNaN(b) THEN NaN ELSE IF a >= b THEN a ELSE b

\* ------------------------------------------------------------------------
\* numpy's elementary functions, in fixed point
\* ------------------------------------------------------------------------

\* numpy.pi.
pi == 31416
HalfPi == pi \div 2
TwoPi == 2 * pi

\* Newton's iteration for the square root of a finite x > 0, from above.
RECURSIVE SqrtIter(_, _)
SqrtIter(x, r) ==
    LET n == (r + DivFP(x, r)) \div 2
    IN  IF n >= r THEN r ELSE SqrtIter(x, n)

\* numpy.sqrt: NaN (and a warning, no exception) for a negative argument.
sqrt(x) ==
    IF IsNaN(x) \/ x = NegInf THEN NaN
    ELSE IF x = PosInf THEN PosInf
    ELSE IF x < 0 THEN NaN
    ELSE IF x = 0 THEN 0
    ELSE SqrtIter(x, IF x > FP THEN x ELSE FP)

\* Taylor polynomial of the sine on [-pi/2, pi/2], in Horner form.
SinPoly(x) ==
    LET x2 == MulFP(x, x)
        t5 == FP - x2 \div 110
        t4 == FP - MulFP(x2, t5) \div 72
        t3 == FP - MulFP(x2, t4) \div 42
        t2 == FP - MulFP(x2, t3) \div 20
        t1 == FP - MulFP(x2, t2) \div 6
    IN  MulFP(x, t1)

\* The argument brought into (-pi, pi], then folded into [-pi/2, pi/2].
SinFP(x) ==
    LET m == ((x + pi) % TwoPi) - pi
        f == IF m > HalfPi THEN pi - m
             ELSE IF m < 0 - HalfPi THEN 0 - pi - m
             ELSE m
    IN  SinPoly(f)

sin(x) == IF IsFinite(x) THEN SinFP(x) ELSE NaN

cos(x) == IF IsFinite(x) THEN SinFP(x + HalfPi) ELSE NaN

\* numpy.tan.  The double nearest pi/2 is not pi/2 and its cosine is a tiny
\* positive number, never zero: tan is finite and huge there.  The model's
\* smallest positive number stands for that cosine.
tan(x) ==
    IF ~IsFinite(x) THEN NaN
    ELSE LET c == SinFP(x + HalfPi)
         IN  DivFP(SinFP(x), IF c = 0 THEN 1 ELSE c)

\* Bisection for the angle in [lo, hi] whose cosine is x (cos decreases on
\* [0, pi]).
RECURSIVE ArccosIter(_, _, _)
ArccosIter(x, lo, hi) ==
    IF hi - lo <= 1 THEN (IF SinFP(lo + HalfPi) - x <= x - SinFP(hi + HalfPi)
                          THEN lo ELSE hi)
    ELSE LET mid == (lo + hi) \div 2
         IN  IF SinFP(mid + HalfPi) > x THEN ArccosIter(x, mid, hi)
             ELSE ArccosIter(x, lo, mid)

\* numpy.arccos: NaN (and a warning, no exception) outside [-1, 1];
\* arccos(1) = 0 and arccos(-1) = pi exactly.
arccos(x) ==
    IF ~IsFinite(x) THEN NaN
    ELSE IF x > FP \/ x < 0 - FP THEN NaN
    ELSE IF x = FP THEN 0
    ELSE IF x = 0 - FP THEN pi
    ELSE ArccosIter(x, 0, pi)

\* ln 2.
Ln2 == 6931

\* 2^k for k >= 0.
RECURSIVE Pow2(_)
Pow2(k) == IF k <= 0 THEN 1 ELSE 2 * Pow2(k - 1)

\* Taylor polynomial of the exponential on [0, ln 2), in Horner form.
ExpPoly(r) ==
    LET t7 == FP + r \div 7
        t6 == FP + MulFP(r, t7) \div 6
        t5 == FP + MulFP(r, t6) \div 5
        t4 == FP + MulFP(r, t5) \div 4
        t3 == FP + MulFP(r, t4) \div 3
        t2 == FP + MulFP(r, t3) \div 2
    IN  FP + MulFP(r, t2)

\* exp(x) = 2^k * exp(r) with x = k ln 2 + r, 0 <= r < ln 2.
ExpFP(x) ==
    LET k == x \div Ln2
        r == x % Ln2
    IN  IF k >= 0 THEN ExpPoly(r) * Pow2(k)
        ELSE (ExpPoly(r) + Pow2(0 - k) \div 2) \div Pow2(0 - k)

exp(x) ==
    IF IsNaN(x) THEN NaN
    ELSE IF x = PosInf THEN PosInf
    ELSE IF x = NegInf THEN 0
    ELSE ExpFP(x)

\* The number of halvings that bring x >= 1 below 2, and of doublings that
\* bring x < 1 up to 1 (negative).
RECURSIVE Log2Floor(_)
Log2Floor(x) ==
    IF x >= 2 * FP THEN 1 + Log2Floor(x \div 2)
    ELSE IF x < FP THEN Log2Floor(2 * x) - 1
    ELSE 0

\* ln(x), x > 0: x = 2^k * m with 1 <= m < 2, and
\* ln m = 2 atanh z = 2 (z + z^3/3 + z^5/5 + z^7/7 + z^9/9), z = (m-1)/(m+1).
LnFP(x) ==
    LET k == Log2Floor(x)
        m == IF k >= 0 THEN x \div Pow2(k) ELSE x * Pow2(0 - k)
        z == DivFP(m - FP, m + FP)
        z2 == MulFP(z, z)
        s4 == FP \div 7 + MulFP(z2, FP \div 9)
        s3 == FP \div 5 + MulFP(z2, s4)
        s2 == FP \div 3 + MulFP(z2, s3)
        s1 == FP + MulFP(z2, s2)
    IN  k * Ln2 + 2 * MulFP(z, s1)

\* Python's float ** float for a base >= 0: 0 ** y = 0 for y > 0.
Pow(x, y) ==
    IF IsNaN(x) \/ IsNaN(y) THEN NaN
    ELSE IF x < 0 THEN NaN
    ELSE IF x = 0 THEN 0
    ELSE ExpFP(MulFP(y, LnFP(x)))

\* numpy.power(x, 4).
power4(x) == Mul(Mul(x, x), Mul(x, x))

\* ------------------------------------------------------------------------
\* Module-level state
\* ------------------------------------------------------------------------

\* op, args, ret: the function being called, its arguments and its result;
\* pc: "call" before the function body has run, "done" after it returned.
\* D: the module-level global D (management depth, inches) that
\* effective_precip reads.  prev: a completed earlier call, remembered for
\* comparing two calls.  ag: the Agrimet object, once constructed.  out: the
\* latest call on the Agrimet class: its arguments, what it returned or
\* raised, and the requests it sent.
VARIABLES op, args, ret, pc, D, prev, ag, out

vars == <<op, args, ret, pc, D, prev, ag, out>>

\* ------------------------------------------------------------------------
\* met/fao.py
\* ------------------------------------------------------------------------

\* Solar constant [MJ m-2 min-1]: 0.0820.
SOLAR_CONSTANT == 820

\* Stefan Boltzmann constant [MJ K-4 m-2 day-1]: 0.000000004903, held in
\* units of 10^-12 so that it multiplies fourth powers of temperatures
\* given in hundreds of kelvin.
STEFAN_BOLTZMANN_CONSTANT == 4903

\* A temperature in hundreds of kelvin.
Hecto(t) == IF IsFinite(t) THEN t \div 100 ELSE t

avp_from_tmin(tmin) ==
    LET t_min_c == Sub(tmin, 2731500)
    IN  Mul(6110, exp(Div(Mul(172700, t_min_c), Add(t_min_c, 2373000))))

\* (2.0 * pi / 365.0) * day_of_year, the integer day multiplied in first.
YearAngle(day_of_year) == (TwoPi * day_of_year) \div 365

sol_dec(day_of_year) == Mul(4090, sin(YearAngle(day_of_year) - 13900))

\* -tan(latitude) * tan(sol_dec), before the clamp.
cos_sha(latitude, sol_decl) == Mul(Neg(tan(latitude)), tan(sol_decl))

\* The argument sunset_hour_angle hands to arccos.
sha_clamped(latitude, sol_decl) ==
    minimum(maximum(cos_sha(latitude, sol_decl), 0 - FP), FP)

\* sunset_hour_angle without the clamp.
sunset_hour_angle_unclamped(latitude, sol_decl) ==
    arccos(cos_sha(latitude, sol_decl))

sunset_hour_angle(latitude, sol_decl) == arccos(sha_clamped(latitude, sol_decl))

\* et_rad counting the hours of a day where it counts the minutes.
et_rad_hours(latitude, sol_decl, sha, ird) ==
    LET tmp1 == Div(24 * FP, pi)
        tmp2 == Mul(Mul(sha, sin(latitude)), sin(sol_decl))
        tmp3 == Mul(Mul(cos(latitude), cos(sol_decl)), sin(sha))
    IN  Mul(Mul(Mul(tmp1, SOLAR_CONSTANT), ird), Add(tmp2, tmp3))

et_rad(latitude, sol_decl, sha, ird) ==
    LET tmp1 == Div(24 * 60 * FP, pi)
        tmp2 == Mul(Mul(sha, sin(latitude)), sin(sol_decl))
        tmp3 == Mul(Mul(cos(latitude), cos(sol_decl)), sin(sha))
    IN  Mul(Mul(Mul(tmp1, SOLAR_CONSTANT), ird), Add(tmp2, tmp3))

\* cs_rad subtracting 0.75 where it adds it.
cs_rad_minus(altitude, ext_rad) ==
    Mul(Sub(altitude \div 50000, 7500), ext_rad)

\* 0.00002 * altitude is altitude / 50000.
cs_rad(altitude, ext_rad) ==
    Mul(Add(altitude \div 50000, 7500), ext_rad)

inv_rel_dist_earth_sun(day_of_year) ==
    Add(FP, Mul(330, cos(YearAngle(day_of_year))))

\* sol_rad_from_t without the cap.
sol_rad_from_t_uncapped(ext_rad, clear_sky_rad, tmin, tmax, coastal) ==
    LET adj == IF coastal THEN 1900 ELSE 1600
    IN  Mul(Mul(adj, sqrt(Sub(tmax, tmin))), ext_rad)

\* sol_rad_from_t capping with numpy.fmin, which drops a NaN operand.
sol_rad_from_t_fmin(ext_rad, clear_sky_rad, tmin, tmax, coastal) ==
    LET adj == IF coastal THEN 1900 ELSE 1600
        sol_rad == Mul(Mul(adj, sqrt(Sub(tmax, tmin))), ext_rad)
    IN  IF IsNaN(sol_rad) THEN clear_sky_rad
        ELSE IF IsNaN(clear_sky_rad) THEN sol_rad
        ELSE minimum(sol_rad, clear_sky_rad)

sol_rad_from_t(ext_rad, clear_sky_rad, tmin, tmax, coastal) ==
    LET adj == IF coastal THEN 1900 ELSE 1600
        sol_rad == Mul(Mul(adj, sqrt(Sub(tmax, tmin))), ext_rad)
    IN  minimum(sol_rad, clear_sky_rad)

net_out_lw_rad(tmin, tmax, sol_rad, clear_sky_rad, avp) ==
    LET tmp1 == Mul(STEFAN_BOLTZMANN_CONSTANT,
                    Div(Add(power4(Hecto(tmax)), power4(Hecto(tmin))), 2 * FP))
        tmp2 == Sub(3400, Mul(1400, sqrt(avp)))
        tmp3 == Sub(Mul(13500, Div(sol_rad, clear_sky_rad)), 3500)
    IN  Mul(Mul(tmp1, tmp2), tmp3)

net_lw_radiation(tmin, tmax, doy, elevation, lat) ==
    LET avp == avp_from_tmin(tmin)
        inv_esun_dist == inv_rel_dist_earth_sun(doy)
        sol_decl == sol_dec(doy)
        sunset_hr_ang == sunset_hour_angle(lat, sol_decl)
        ext_rad == et_rad(lat, sol_decl, sunset_hr_ang, inv_esun_dist)
        clear_sky_rad == cs_rad(elevation, ext_rad)
        solar_rad == sol_rad_from_t(ext_rad, clear_sky_rad, tmin, tmax, FALSE)
    IN  net_out_lw_rad(tmin, tmax, solar_rad, clear_sky_rad, avp)

\* The extraterrestrial radiation of a day at a latitude, as net_sw_radiation
\* and net_lw_radiation both obtain it.
ext_rad_of(doy, lat) ==
    LET inv_esun_dist == inv_rel_dist_earth_sun(doy)
        sol_decl == sol_dec(doy)
        sunset_hr_ang == sunset_hour_angle(lat, sol_decl)
    IN  et_rad(lat, sol_decl, sunset_hr_ang, inv_esun_dist)

\* net_sw_radiation taking the clear-sky radiation of sea level.
net_sw_radiation_sea_level(elevation, albedo, doy, lat) ==
    Mul(Sub(FP, albedo), Mul(7500, ext_rad_of(doy, lat)))

net_sw_radiation(elevation, albedo, doy, lat) ==
    LET inv_esun_dist == inv_rel_dist_earth_sun(doy)
        sol_decl == sol_dec(doy)
        sunset_hr_ang == sunset_hour_angle(lat, sol_decl)
        ext_rad == et_rad(lat, sol_decl, sunset_hr_ang, inv_esun_dist)
        rs == Mul(Add(7500, elevation \div 50000), ext_rad)
    IN  Mul(Sub(FP, albedo), rs)

\* get_net_radiation with the operands of the subtraction exchanged.
get_net_radiation_swapped(tmin, tmax, doy, elevation, lat, albedo) ==
    LET net_lw == net_lw_radiation(tmin, tmax, doy, elevation, lat)
        net_sw == net_sw_radiation(elevation, albedo, doy, lat)
    IN  Sub(net_lw, net_sw)

get_net_radiation(tmin, tmax, doy, elevation, lat, albedo) ==
    LET net_lw == net_lw_radiation(tmin, tmax, doy, elevation, lat)
        net_sw == net_sw_radiation(elevation, albedo, doy, lat)
    IN  Sub(net_sw, net_lw)

\* ------------------------------------------------------------------------
\* met/utils/wudr_analysis.py and utils/polygon_met.py
\* ------------------------------------------------------------------------

\* The value both modules bind D to at import: 3.0.
D_import == 3 * FP

\* The depth coefficient with the sign of its quadratic term flipped.
depth_coefficient_sign(d) ==
    Add(Add(Add(5317, Mul(2952, d)), Mul(577, Mul(d, d))),
        Mul(38, Mul(Mul(d, d), d)))

\* sf = 0.531747 + 0.295164 * D - 0.057697 * (D ** 2) + 0.003804 * (D ** 3)
depth_coefficient(d) ==
    Add(Sub(Add(5317, Mul(2952, d)), Mul(577, Mul(d, d))),
        Mul(38, Mul(Mul(d, d), d)))

\* effective_precip with the operands of the inner subtraction exchanged.
effective_precip_swapped(precip, ref_et) ==
    LET ppt == Div(precip, 254000)
        etc == Div(ref_et, 254000)
        sf == depth_coefficient(D)
        eff_ppt == Mul(Mul(sf, Sub(1156, Pow(Mul(7092, ppt), 8242))),
                       Pow(10 * FP, Mul(243, etc)))
    IN  Mul(eff_ppt, 254000)

\* effective_precip converting its result to millimetres twice.
effective_precip_twice(precip, ref_et) ==
    LET ppt == Div(precip, 254000)
        etc == Div(ref_et, 254000)
        sf == depth_coefficient(D)
        eff_ppt == Mul(Mul(sf, Sub(Pow(Mul(7092, ppt), 8242), 1156)),
                       Pow(10 * FP, Mul(243, etc)))
    IN  Mul(Mul(eff_ppt, 254000), 254000)

\* wudr_analysis.effective_precip; it reads the module's global D.
effective_precip(precip, ref_et) ==
    LET ppt == Div(precip, 254000)
        etc == Div(ref_et, 254000)
        sf == depth_coefficient(D)
        eff_ppt == Mul(Mul(sf, Sub(Pow(Mul(7092, ppt), 8242), 1156)),
                       Pow(10 * FP, Mul(243, etc)))
    IN  Mul(eff_ppt, 254000)

\* polygon_met.effective_precip; its module binds its own D = 3.0 and
\* nothing rebinds it.
polygon_effective_precip(precip, ref_et) ==
    LET ppt == Div(precip, 254000)
        etc == Div(ref_et, 254000)
        sf == depth_coefficient(D_import)
        eff_ppt == Mul(Mul(sf, Sub(Pow(Mul(7092, ppt), 8242), 1156)),
                       Pow(10 * FP, Mul(243, etc)))
    IN  Mul(eff_ppt, 254000)

\* ------------------------------------------------------------------------
\* met/agrimet.py
\* ------------------------------------------------------------------------

\* Python's None, and a value that is not None.
None == <<>>
Some(v) == <<v>>

Range(s) == {s[i] : i \in DOMAIN s}

\* WEATHER_PARAMETRS: the name and the unit of every reformatted column.
WEATHER_PARAMETRS ==
    <<[name |-> "DATETIME", unit |-> "[YYYY-MM-DD]"],
      [name |-> "ET", unit |-> "[mm]"],
      [name |-> "ETos", unit |-> "[mm]"],
      [name |-> "ETrs", unit |-> "[mm]"],
      [name |-> "MM", unit |-> "[C]"],
      [name |-> "MN", unit |-> "[C]"],
      [name |-> "MX", unit |-> "[C]"],
      [name |-> "PC", unit |-> "[mm]"],
      [name |-> "PP", unit |-> "[mm]"],
      [name |-> "PU", unit |-> "[mm]"],
      [name |-> "SR", unit |-> "[MJ m-2]"],
      [name |-> "TA", unit |-> "[%]"],
      [name |-> "TG", unit |-> "[base 50F]"],
      [name |-> "YM", unit |-> "[C]"],
      [name |-> "UA", unit |-> "[m sec-1]"],
      [name |-> "UD", unit |-> "[deg az]"],
      [name |-> "WG", unit |-> "[m sec-1]"],
      [name |-> "WR", unit |-> "[m]"]>>

\* TARGET_COLUMNS.  A column is named here by its parameter alone: the
\* station prefix fetch_met_data puts before it is the one
\* _reformat_dataframe strips again.
TARGET_COLUMNS ==
    <<"et", "etos", "etrs", "mm", "mn", "mx", "pp", "pu", "sr", "ta", "tg",
      "ua", "ud", "wg", "wr", "ym">>

\* str.upper on the names of the parameters.
UpperCase ==
    [et |-> "ET", etos |-> "ETOS", ETos |-> "ETOS", etrs |-> "ETRS",
     ETrs |-> "ETRS", mm |-> "MM", mn |-> "MN", mx |-> "MX", pc |-> "PC",
     pp |-> "PP", pu |-> "PU", sr |-> "SR", ta |-> "TA", tg |-> "TG",
     ym |-> "YM", ua |-> "UA", ud |-> "UD", wg |-> "WG", wr |-> "WR"]

upper(s) == IF s \in DOMAIN UpperCase THEN UpperCase[s] ELSE s

\* ALL_STATIONS, the region of a station: three of its entries.
ALL_STATIONS == [abei |-> "pn", drlm |-> "pn", bozm |-> "gp"]

\* What the station service answers load_stations with: GeoJSON features,
\* coordinates as (lon, lat), here in whole degrees.
StationData ==
    <<[siteid |-> "abei", coordinates |-> <<0 - 113, 43>>],
      [siteid |-> "bozm", coordinates |-> <<0 - 111, 46>>],
      [siteid |-> "drlm", coordinates |-> <<0 - 113, 46>>]>>

\* geopy's geodesic(a, b).km for two (lat, lon) points.  The code uses it
\* only to order the stations by distance; the model measures the squared
\* distance in the plane, in degrees.
geodesic(a, b) ==
    (a[1] - b[1]) * (a[1] - b[1]) + (a[2] - b[2]) * (a[2] - b[2])

\* The date a day number stands for: day 0 is 2015-01-01.
Year(day) == 2015 + day \div 365

\* A table: the names of its columns, their units when it has been
\* reformatted, the days of its index, and its data, one sequence of values
\* (a value per day of the index) per column.
NoFrame == [columns |-> <<>>, units |-> <<>>, index |-> <<>>, data |-> <<>>]

\* The Agrimet object before __init__ has run.  A region or a start of
\* None is an attribute that has not been set.
NoAgrimet ==
    [exists |-> FALSE, station |-> None, distance_from_station |-> None,
     station_coords |-> None, distances |-> None, empty_df |-> TRUE,
     interval |-> None, start |-> None, end |-> None, region |-> None,
     rank |-> 0]

\* What a call leaves behind: the object, and the value it returned or
\* the exception it raised, the table before reformatting, and the number
\* of requests it sent.
Return(self, value, raw, requests) ==
    [self |-> self, status |-> "returned", exc |-> "", value |-> value,
     raw |-> raw, requests |-> requests]

Raise(self, exc, requests) ==
    [self |-> self, status |-> "raised", exc |-> exc, value |-> NoFrame,
     raw |-> NoFrame, requests |-> requests]

NoOut ==
    [op |-> "none", args |-> <<>>, status |-> "none", exc |-> "",
     value |-> NoFrame, raw |-> NoFrame, requests |-> 0]

\* An unstable order: an item goes before the items as far as it.
RECURSIVE insert_by_distance_ties_first(_, _)
insert_by_distance_ties_first(item, s) ==
    IF Len(s) = 0 THEN <<item>>
    ELSE IF item[2] <= Head(s)[2] THEN <<item>> \o s
    ELSE <<Head(s)>> \o insert_by_distance_ties_first(item, Tail(s))

\* sorted(items, key=lambda x: x[1]): stable, so an item goes behind the
\* items that are not farther than it.
RECURSIVE insert_by_distance(_, _)
insert_by_distance(item, s) ==
    IF Len(s) = 0 THEN <<item>>
    ELSE IF item[2] < Head(s)[2] THEN <<item>> \o s
    ELSE <<Head(s)>> \o insert_by_distance(item, Tail(s))

RECURSIVE sorted_by_distance(_)
sorted_by_distance(items) ==
    IF Len(items) = 0 THEN <<>>
    ELSE insert_by_distance(items[Len(items)],
                            sorted_by_distance(SubSeq(items, 1, Len(items) - 1)))

\* find_closest_station: the object it leaves and the station it returns.
\* The dicts are sequences of (key, value) pairs in insertion order; min
\* returns the first key of the smallest distance.
find_closest_station(self, target_lat, target_lon) ==
    LET features == StationData
        distances ==
            [i \in 1..Len(features) |->
                <<features[i].siteid,
                  geodesic(<<target_lat, target_lon>>,
                           <<features[i].coordinates[2],
                             features[i].coordinates[1]>>)>>]
        station_coords ==
            [i \in 1..Len(features) |->
                <<features[i].siteid,
                  <<features[i].coordinates[2], features[i].coordinates[1]>>>>]
        first == CHOOSE i \in 1..Len(distances) :
                    /\ \A j \in 1..Len(distances) :
                          distances[i][2] <= distances[j][2]
                    /\ \A j \in 1..(i - 1) : distances[j][2] # distances[i][2]
        k == distances[first][1]
    IN  [self |-> [self EXCEPT !.distances = Some(sorted_by_distance(distances)),
                               !.distance_from_station = Some(distances[first][2]),
                               !.station_coords = Some(station_coords)],
         k |-> k]

\* find_station_coords: the (lat, lon) of the last feature of the station.
find_station_coords(self) ==
    LET features == StationData
        hits == {i \in 1..Len(features) : Some(features[i].siteid) = self.station}
        last == CHOOSE i \in hits : \A j \in hits : j <= i
    IN  IF hits = {} THEN self
        ELSE [self EXCEPT !.station_coords =
                 Some(<<features[last].coordinates[2],
                        features[last].coordinates[1]>>)]

\* Agrimet.__init__ on its arguments a: the object it builds, or the
\* exception it raises; load_stations sends one request.
__init__(a) ==
    LET self0 == [NoAgrimet EXCEPT !.exists = TRUE, !.station = a.station]
        not_station == a.station = None \/ a.station[1] = ""
        not_lat == a.lat = None \/ a.lat[1] = 0
        not_sat_image == a.sat_image = None
        search == not_station /\ ~a.write_stations
        target ==
            IF not_sat_image THEN <<a.lat[1], a.lon[1]>>
            ELSE <<(a.sat_image[1].corner_ll_lat_product
                        + a.sat_image[1].corner_ul_lat_product) \div 2,
                   (a.sat_image[1].corner_ll_lon_product
                        + a.sat_image[1].corner_lr_lon_product) \div 2>>
        found == find_closest_station(self0, target[1], target[2])
        self1 == IF search THEN [found.self EXCEPT !.station = Some(found.k)]
                 ELSE self0
        self2 == IF ~not_station THEN find_station_coords(self1) ELSE self1
        self3 == [self2 EXCEPT !.interval = a.interval]
        self4 == IF a.start_date # None /\ a.end_date # None
                 THEN [self3 EXCEPT !.start = a.start_date, !.end = a.end_date]
                 ELSE self3
        self5 == IF self4.station # None /\ self4.station[1] \in DOMAIN ALL_STATIONS
                 THEN [self4 EXCEPT !.region = Some(ALL_STATIONS[self4.station[1]])]
                 ELSE self4
        requests == (IF search THEN 1 ELSE 0) + (IF ~not_station THEN 1 ELSE 0)
    IN  IF search /\ not_lat /\ not_sat_image
        THEN Raise(NoAgrimet,
                   "ValueError: Must initialize agrimet with a station, an Image, or some coordinates.",
                   0)
        ELSE Return([self5 EXCEPT !.rank = 0], NoFrame, NoFrame, requests)

\* The unit conversions of _reformat_dataframe.

\* Inches converted to millimetres twice.
in_to_mm_twice(v) == Mul(Mul(v, 254000), 254000)

in_to_mm(v) == Mul(v, 254000)

\* Fahrenheit to Celsius with the offset taken off after the scaling.
f_to_c_offset_last(v) == Sub(Div(Mul(v, 5 * FP), 9 * FP), 32 * FP)

f_to_c(v) == Div(Mul(Sub(v, 32 * FP), 5 * FP), 9 * FP)
mph_to_m_s(v) == Mul(v, 4470)
mi_to_m(v) == Mul(v, 16093400)
langleys_to_mj(v) == Div(v, 239006)

\* The body of the loop of _reformat_dataframe for one column: the value
\* the column's cell v becomes.
convert(col, v) ==
    LET v1 == IF col \in {"ET", "ETRS", "ETOS", "PC", "PP", "PU"}
              THEN in_to_mm(v) ELSE v
        v2 == IF col \in {"MN", "MX", "MM", "YM"} THEN f_to_c(v1) ELSE v1
        v3 == IF col \in {"UA", "WG"} THEN mph_to_m_s(v2) ELSE v2
        v4 == IF col = "WR" THEN mi_to_m(v3) ELSE v3
    IN  IF col = "SR" THEN langleys_to_mj(v4) ELSE v4

\* The position of the column named c.
position(columns, c) == CHOOSE i \in 1..Len(columns) : columns[i] = c

\* df[c] on the r-th day of the index.
cell(df, r, c) == df.data[position(df.columns, c)][r]

\* The inner loop of the first loop of _reformat_dataframe, from entry j of
\* WEATHER_PARAMETRS on: the first entry whose name is end, if there is one.
RECURSIVE weather_parameter(_, _)
weather_parameter(end, j) ==
    IF j > Len(WEATHER_PARAMETRS) THEN <<>>
    ELSE IF end = upper(WEATHER_PARAMETRS[j].name) THEN <<WEATHER_PARAMETRS[j]>>
    ELSE weather_parameter(end, j + 1)

\* The first loop of _reformat_dataframe: the entry of WEATHER_PARAMETRS
\* of every column that has one, in the order of the columns.
RECURSIVE heads(_)
heads(old_cols) ==
    IF Len(old_cols) = 0 THEN <<>>
    ELSE weather_parameter(upper(Head(old_cols)), 1) \o heads(Tail(old_cols))

\* The second loop of _reformat_dataframe from position i on (enumerate's
\* index plus one), on the data of a table whose columns are named by
\* columns.  A column the table lacks is a KeyError: its header entry is
\* removed and the iteration goes on at the next index of the shorter list.
RECURSIVE convert_columns(_, _, _, _)
convert_columns(data, columns, head, i) ==
    IF i > Len(head) THEN [data |-> data, head |-> head]
    ELSE LET col == upper(head[i].name)
         IN  IF col \in Range(columns)
             THEN convert_columns(
                      [data EXCEPT ![position(columns, col)] =
                          [r \in 1..Len(@) |-> convert(col, @[r])]],
                      columns, head, i + 1)
             ELSE convert_columns(
                      data, columns,
                      SubSeq(head, 1, i - 1) \o SubSeq(head, i + 1, Len(head)),
                      i + 1)

\* The upper-case names of a header.
RECURSIVE names(_)
names(head) ==
    IF Len(head) = 0 THEN <<>>
    ELSE <<upper(Head(head).name)>> \o names(Tail(head))

RECURSIVE units(_)
units(head) ==
    IF Len(head) = 0 THEN <<>> ELSE <<Head(head).unit>> \o units(Tail(head))

\* _reformat_dataframe on a table whose columns are all weather
\* parameters: the columns are renamed by position to the upper-case names
\* of WEATHER_PARAMETRS, then converted one by one.
_reformat_dataframe(df) ==
    LET head == heads(df.columns)
        done == convert_columns(df.data, names(head), head, 1)
    IN  [columns |-> names(done.head), units |-> units(done.head),
         index |-> df.index, data |-> done.data]

\* raw_df[columns]: the named columns, in the order given.
select_columns(df, columns) ==
    [df EXCEPT !.columns = columns,
               !.data = [j \in 1..Len(columns) |->
                            df.data[position(df.columns, columns[j])]]]

\* raw_df[start:end] of a table indexed by consecutive days from start on.
slice(df, start, end) ==
    LET n == Len(df.index)
        span == end - start + 1
        kept == IF span < 0 THEN 0 ELSE IF n <= span THEN n ELSE span
    IN  [df EXCEPT !.index = SubSeq(df.index, 1, kept),
                   !.data = [j \in 1..Len(df.data) |->
                                SubSeq(df.data[j], 1, kept)]]

\* fetch_met_data with an empty_df that follows the rows of the last call.
fetch_met_data_resetting(self, return_raw, served) ==
    IF self.region = None \/ self.start = None
    THEN Raise(self, "AttributeError", 0)
    ELSE LET dated == [served EXCEPT !.index =
                          [r \in 1..Len(served.index) |-> self.start[1] + r - 1]]
             sliced == slice(dated, self.start[1], self.end[1])
             raw_df ==
                 select_columns(sliced,
                     SelectSeq(served.columns, LAMBDA c : c # "DateTime"))
             self1 == [self EXCEPT !.empty_df = ~(Len(raw_df.index) > 3)]
         IN  IF return_raw THEN Return(self1, raw_df, raw_df, 1)
             ELSE IF ~(Range(TARGET_COLUMNS) \subseteq Range(raw_df.columns))
             THEN Raise(self1, "KeyError", 1)
             ELSE Return(self1,
                         _reformat_dataframe(select_columns(raw_df, TARGET_COLUMNS)),
                         raw_df, 1)

\* Agrimet.fetch_met_data on what the service sends (served).  Reading
\* self.region, self.start_index or self.start when __init__ has not set
\* them is an AttributeError, raised before the request.
fetch_met_data(self, return_raw, served) ==
    IF self.region = None \/ self.start = None
    THEN Raise(self, "AttributeError", 0)
    ELSE LET dated == [served EXCEPT !.index =
                          [r \in 1..Len(served.index) |-> self.start[1] + r - 1]]
             sliced == slice(dated, self.start[1], self.end[1])
             raw_df ==
                 select_columns(sliced,
                     SelectSeq(served.columns, LAMBDA c : c # "DateTime"))
             self1 == IF Len(raw_df.index) > 3
                      THEN [self EXCEPT !.empty_df = FALSE]
                      ELSE self
         IN  IF return_raw THEN Return(self1, raw_df, raw_df, 1)
             ELSE IF ~(Range(TARGET_COLUMNS) \subseteq Range(raw_df.columns))
             THEN Raise(self1, "KeyError", 1)
             ELSE Return(self1,
                         _reformat_dataframe(select_columns(raw_df, TARGET_COLUMNS)),
                         raw_df, 1)

\* The rest of fetch_crop_data, after its check of the years, on the crop
\* water use table the service sends: the first row (two for the region gp)
\* is skipped, the rows left are dated as consecutive days from the day
\* the first of them names, the days of self.start..self.end without a row
\* are filled with 0.0, and every value is converted from inches.  An empty
\* table has no first index to parse: TypeError.
crop_table(self, served) ==
    IF self.region = None THEN Raise(self, "AttributeError", 0)
    ELSE LET skipped == IF self.region[1] = "pn" THEN 1 ELSE 2
             n == Len(served.index)
             left == IF n <= skipped THEN 0 ELSE n - skipped
             et_summary_start == served.index[skipped + 1]
             raw_df ==
                 [served EXCEPT
                     !.index = [r \in 1..left |-> et_summary_start + r - 1],
                     !.data = [j \in 1..Len(served.data) |->
                                  SubSeq(served.data[j], skipped + 1, n)]]
             idx == [r \in 1..(self.end[1] - self.start[1] + 1) |->
                        self.start[1] + r - 1]
             reindexed(column, day) ==
                 IF et_summary_start <= day /\ day < et_summary_start + left
                 THEN column[day - et_summary_start + 1]
                 ELSE 0
             reformed_data ==
                 [raw_df EXCEPT
                     !.index = idx,
                     !.data = [j \in 1..Len(raw_df.data) |->
                                  [r \in 1..Len(idx) |->
                                      in_to_mm(reindexed(raw_df.data[j], idx[r]))]]]
         IN  IF left = 0 THEN Raise(self, "TypeError", 1)
             ELSE Return(self, reformed_data, raw_df, 1)

\* fetch_crop_data without its check of the years.
fetch_crop_data_unchecked(self, served) ==
    IF self.start = None THEN Raise(self, "AttributeError", 0)
    ELSE crop_table(self, served)

\* Agrimet.fetch_crop_data.  Reading self.start when __init__ has not set
\* it is an AttributeError.
fetch_crop_data(self, served) ==
    IF self.start = None THEN Raise(self, "AttributeError", 0)
    ELSE IF ~(Year(self.start[1]) = Year(self.end[1]))
    THEN Raise(self,
               "ValueError: Must choose one year for crop water use reports.",
               0)
    ELSE crop_table(self, served)

\* ------------------------------------------------------------------------
\* Calls
\* ------------------------------------------------------------------------

\* How finely the latitudes of [-pi/2, pi/2], the solar declinations of
\* [-0.41, 0.41], the precipitation amounts and the reference ET amounts
\* are sampled.
LatSteps == 6
DecSteps == 4
MaxPrecip == 6
MaxRefEt == 6

Latitudes == {(k * HalfPi) \div LatSteps : k \in (0 - LatSteps)..LatSteps}
Declinations == {(k * 4100) \div DecSteps : k \in (0 - DecSteps)..DecSteps}
Days == {1, 80, 172, 264, 355, 366}
Elevations == {0, 1000 * FP}
\* -10, 10 and 25 degrees Celsius, in kelvin.
Temperatures == {2631500, 2831500, 2981500}
Albedos == {2300}
\* Extraterrestrial and clear-sky radiation handed to sol_rad_from_t.
Radiations == {0 - 5 * FP, 0, 10 * FP, 40 * FP}
ClearSkies == {0 - 3 * FP, 0, 75000, 30 * FP}
\* Millimetres.
Precips == {k * 10 * FP : k \in 0..MaxPrecip}
RefEts == {k * 50 * FP : k \in 0..MaxRefEt}

NoArgs ==
    [tmin |-> 0, tmax |-> 0, doy |-> 0, elevation |-> 0, lat |-> 0,
     albedo |-> 0, coastal |-> FALSE, et_rad |-> 0, cs_rad |-> 0,
     sol_dec |-> 0, sha |-> 0, ird |-> 0, precip |-> 0, ref_et |-> 0]

NoCall == [op |-> "none", args |-> NoArgs, ret |-> 0]

\* The calls with arguments drawn from the given sets.
CallsOver(lats, decs, days, elevs, temps, ras, rsos, precips, refets) ==
    {[op |-> "sol_rad_from_t",
      args |-> [NoArgs EXCEPT !.et_rad = ra, !.cs_rad = rso, !.tmin = tn,
                              !.tmax = tx, !.coastal = c]] :
        ra \in ras, rso \in rsos, tn \in temps, tx \in temps, c \in BOOLEAN}
    \cup
    {[op |-> "sunset_hour_angle",
      args |-> [NoArgs EXCEPT !.lat = la, !.sol_dec = de]] :
        la \in lats, de \in decs}
    \cup
    {[op |-> o,
      args |-> [NoArgs EXCEPT !.tmin = tn, !.tmax = tx, !.doy = dy,
                              !.elevation = el, !.lat = la,
                              !.albedo = IF o = "get_net_radiation" THEN al ELSE 0]] :
        o \in {"get_net_radiation", "net_lw_radiation"}, tn \in temps,
        tx \in temps, dy \in days, el \in elevs, la \in lats, al \in Albedos}
    \cup
    {[op |-> "net_sw_radiation",
      args |-> [NoArgs EXCEPT !.elevation = el, !.albedo = al, !.doy = dy,
                              !.lat = la]] :
        el \in elevs, al \in Albedos, dy \in days, la \in lats}
    \cup
    {[op |-> "et_rad",
      args |-> [NoArgs EXCEPT !.lat = la, !.doy = dy, !.sol_dec = sol_dec(dy),
                              !.sha = sunset_hour_angle(la, sol_dec(dy)),
                              !.ird = inv_rel_dist_earth_sun(dy)]] :
        la \in lats, dy \in days}
    \cup
    {[op |-> "cs_rad",
      args |-> [NoArgs EXCEPT !.elevation = el, !.lat = la, !.doy = dy,
                              !.et_rad = ext_rad_of(dy, la)]] :
        el \in elevs, la \in lats, dy \in days}
    \cup
    {[op |-> o, args |-> [NoArgs EXCEPT !.precip = p, !.ref_et = e]] :
        o \in {"effective_precip", "polygon_effective_precip"},
        p \in precips, e \in refets}

\* The sample, and the mid-latitude site: 0.81 rad, 1000 m, the summer
\* solstice, 10 and 25 degrees Celsius.
Calls ==
    CallsOver(Latitudes, Declinations, Days, Elevations, Temperatures,
              Radiations, ClearSkies, Precips, RefEts)
    \cup
    CallsOver({8100}, {}, {172}, {1000 * FP}, {2831500, 2981500},
              {}, {}, {}, {})

\* Each action is one call: the function named by op runs on args and
\* returns its result; nothing else is written.
SolRadFromT ==
    /\ pc = "call"
    /\ op = "sol_rad_from_t"
    /\ ret' = sol_rad_from_t(args.et_rad, args.cs_rad, args.tmin,
                             args.tmax, args.coastal)
    /\ pc' = "done"
    /\ UNCHANGED <<op, args, D, prev, ag, out>>

SunsetHourAngle ==
    /\ pc = "call"
    /\ op = "sunset_hour_angle"
    /\ ret' = sunset_hour_angle(args.lat, args.sol_dec)
    /\ pc' = "done"
    /\ UNCHANGED <<op, args, D, prev, ag, out>>

GetNetRadiation ==
    /\ pc = "call"
    /\ op = "get_net_radiation"
    /\ ret' = get_net_radiation(args.tmin, args.tmax, args.doy,
                                args.elevation, args.lat, args.albedo)
    /\ pc' = "done"
    /\ UNCHANGED <<op, args, D, prev, ag, out>>

NetLwRadiation ==
    /\ pc = "call"
    /\ op = "net_lw_radiation"
    /\ ret' = net_lw_radiation(args.tmin, args.tmax, args.doy,
                               args.elevation, args.lat)
    /\ pc' = "done"
    /\ UNCHANGED <<op, args, D, prev, ag, out>>

NetSwRadiation ==
    /\ pc = "call"
    /\ op = "net_sw_radiation"
    /\ ret' = net_sw_radiation(args.elevation, args.albedo, args.doy,
                               args.lat)
    /\ pc' = "done"
    /\ UNCHANGED <<op, args, D, prev, ag, out>>

EtRad ==
    /\ pc = "call"
    /\ op = "et_rad"
    /\ ret' = et_rad(args.lat, args.sol_dec, args.sha, args.ird)
    /\ pc' = "done"
    /\ UNCHANGED <<op, args, D, prev, ag, out>>

CsRad ==
    /\ pc = "call"
    /\ op = "cs_rad"
    /\ ret' = cs_rad(args.elevation, args.et_rad)
    /\ pc' = "done"
    /\ UNCHANGED <<op, args, D, prev, ag, out>>

\* effective_precip rebinding the module's D while it runs.
EffectivePrecip_rebinding ==
    /\ pc = "call"
    /\ op = "effective_precip"
    /\ ret' = effective_precip(args.precip, args.ref_et)
    /\ pc' = "done"
    /\ D' = D + FP
    /\ UNCHANGED <<op, args, prev, ag, out>>

EffectivePrecip ==
    /\ pc = "call"
    /\ op = "effective_precip"
    /\ ret' = effective_precip(args.precip, args.ref_et)
    /\ pc' = "done"
    /\ UNCHANGED <<op, args, D, prev, ag, out>>

PolygonEffectivePrecip ==
    /\ pc = "call"
    /\ op = "polygon_effective_precip"
    /\ ret' = polygon_effective_precip(args.precip, args.ref_et)
    /\ pc' = "done"
    /\ UNCHANGED <<op, args, D, prev, ag, out>>

InitOver(calls) ==
    /\ \E c \in calls : op = c.op /\ args = c.args
    /\ ret = 0
    /\ pc = "call"
    /\ D = D_import
    /\ prev = NoCall
    /\ ag = NoAgrimet
    /\ out = NoOut

\* One call of one function, on every input of the sample.
Init == InitOver(Calls)

Next ==
    \/ SolRadFromT
    \/ SunsetHourAngle
    \/ GetNetRadiation
    \/ NetLwRadiation
    \/ NetSwRadiation
    \/ EtRad
    \/ CsRad
    \/ EffectivePrecip
    \/ PolygonEffectivePrecip

Spec == Init /\ [][Next]_vars

\* ------------------------------------------------------------------------
\* Call after call
\* ------------------------------------------------------------------------

\* The sample of calls behaviours of several calls are made of.
PureCalls ==
    CallsOver({0, 8100}, {0, 4100}, {172, 355}, {0}, {2831500, 2981500},
              {40 * FP}, {30 * FP}, {0, 50 * FP}, {0, 150 * FP})

\* The completed call is remembered, to be compared with a later one.
Remember ==
    /\ pc = "done"
    /\ prev' = [op |-> op, args |-> args, ret |-> ret]
    /\ UNCHANGED <<op, args, ret, pc, D, ag, out>>

\* The caller goes on to its next call.
NextCall ==
    /\ pc = "done"
    /\ \E c \in PureCalls : op' = c.op /\ args' = c.args
    /\ ret' = 0
    /\ pc' = "call"
    /\ UNCHANGED <<D, prev, ag, out>>

InitPure == InitOver(PureCalls)

NextPure ==
    \/ SolRadFromT
    \/ SunsetHourAngle
    \/ GetNetRadiation
    \/ NetLwRadiation
    \/ NetSwRadiation
    \/ EtRad
    \/ CsRad
    \/ EffectivePrecip
    \/ PolygonEffectivePrecip
    \/ Remember
    \/ NextCall

\* Any number of calls, in any order.
SpecPure == InitPure /\ [][NextPure]_vars

\* ------------------------------------------------------------------------
\* An Agrimet object and the calls on it
\* ------------------------------------------------------------------------

\* The most rows the service sends.
MaxRows == 5

\* The arguments of the constructor: dates as day numbers (four days of
\* 2015, and eleven days into 2016), a station and one unknown to
\* ALL_STATIONS, latitudes with the longitude -113, and a satellite image
\* centred on (46, -112).
DateArgs == {<<None, None>>, <<Some(0), Some(3)>>, <<Some(360), Some(370)>>}
StationArgs == {None, Some("abei"), Some("zzzz")}
LatArgs == {None, Some(0), Some(45)}
ImageArgs ==
    {None,
     Some([corner_ll_lat_product |-> 45, corner_ul_lat_product |-> 47,
           corner_ll_lon_product |-> 0 - 113,
           corner_lr_lon_product |-> 0 - 111])}

\* The values of the first row of a table the service sends; a cell that
\* is not a number is read as NaN.
RawValues == {0, 505000, NaN}

\* A table of n rows indexed from first on, every cell of row r holding
\* seed + (r - 1).
Table(columns, first, n, seed) ==
    [columns |-> columns, units |-> <<>>,
     index |-> [r \in 1..n |-> first + r - 1],
     data |-> [j \in 1..Len(columns) |->
                  [r \in 1..n |->
                      IF columns[j] = "DateTime" THEN first + r - 1
                      ELSE IF IsNaN(seed) THEN NaN
                      ELSE seed + (r - 1) * FP]]]

\* The daily table the service sends for a station: the region pn sends
\* the date as a column and may send further parameters, gp the sixteen
\* asked for.
ServedMet(self, n, seed, more) ==
    IF self.region = Some("pn")
    THEN Table(<<"DateTime">> \o TARGET_COLUMNS \o (IF more THEN <<"pc">> ELSE <<>>),
               0, n, seed)
    ELSE Table(TARGET_COLUMNS, 0, n, seed)

\* The crop water use table the service sends: its rows name consecutive
\* days, the first of them self.start or the day before.
ServedCrop(self, n, seed, early) ==
    Table(<<"ETr", "ALFP">>,
          (IF self.start = None THEN 0 ELSE self.start[1])
              - (IF early THEN 1 ELSE 0),
          n, seed)

\* Agrimet(...): the constructor runs once.
Construct ==
    /\ ~ag.exists
    /\ out.op = "none"
    /\ \E dates \in DateArgs, station \in StationArgs, lat \in LatArgs,
          sat_image \in ImageArgs, write_stations \in BOOLEAN :
          LET a == [start_date |-> dates[1], end_date |-> dates[2],
                    station |-> station, interval |-> None, lat |-> lat,
                    lon |-> IF lat = None THEN None ELSE Some(0 - 113),
                    sat_image |-> sat_image,
                    write_stations |-> write_stations]
          IN  \E r \in {__init__(a)} :
                  /\ ag' = r.self
                  /\ out' = [op |-> "__init__", args |-> a,
                             status |-> r.status, exc |-> r.exc,
                             value |-> r.value, raw |-> r.raw,
                             requests |-> r.requests]
    /\ UNCHANGED <<op, args, ret, pc, D, prev>>

FetchMetData ==
    /\ ag.exists
    /\ \E return_raw \in BOOLEAN, n \in 0..MaxRows, seed \in RawValues,
          more \in (IF ag.region = Some("pn") THEN BOOLEAN ELSE {FALSE}) :
          \E r \in {fetch_met_data(ag, return_raw, ServedMet(ag, n, seed, more))} :
              /\ ag' = r.self
              /\ out' = [op |-> "fetch_met_data",
                         args |-> [return_raw |-> return_raw],
                         status |-> r.status, exc |-> r.exc,
                         value |-> r.value, raw |-> r.raw,
                         requests |-> r.requests]
    /\ UNCHANGED <<op, args, ret, pc, D, prev>>

FetchCropData ==
    /\ ag.exists
    /\ \E n \in 0..MaxRows, seed \in RawValues \ {NaN}, early \in BOOLEAN :
          \E r \in {fetch_crop_data(ag, ServedCrop(ag, n, seed, early))} :
              /\ ag' = r.self
              /\ out' = [op |-> "fetch_crop_data", args |-> <<>>,
                         status |-> r.status, exc |-> r.exc,
                         value |-> r.value, raw |-> r.raw,
                         requests |-> r.requests]
    /\ UNCHANGED <<op, args, ret, pc, D, prev>>

InitAgrimet ==
    /\ op = NoCall.op
    /\ args = NoArgs
    /\ ret = 0
    /\ pc = "agrimet"
    /\ D = D_import
    /\ prev = NoCall
    /\ ag = NoAgrimet
    /\ out = NoOut

NextAgrimet ==
    \/ Construct
    \/ FetchMetData
    \/ FetchCropData

\* An Agrimet object is constructed, then fetched from any number of times.
SpecAgrimet == InitAgrimet /\ [][NextAgrimet]_vars

\* ------------------------------------------------------------------------
\* met/utils/wudr_analysis.py and utils/polygon_met.py: class DataCollector
\* ------------------------------------------------------------------------

\* The years of the summaries.
YEARS == <<2008, 2009, 2010, 2011, 2012, 2013>>

\* What a call leaves behind: the collector (or the table a function
\* made), that it returned or the exception it raised, and the stations of
\* the lines 'Error on station ...' it printed.
Returned(self, printed) ==
    [self |-> self, status |-> "returned", exc |-> "", printed |-> printed]

Raised(self, exc, printed) ==
    [self |-> self, status |-> "raised", exc |-> exc, printed |-> printed]

\* self.df.loc[dt] = row: pandas refuses a row that has not one value per
\* column (ValueError); a date that is not in the index is appended.
loc(self, dt, row) ==
    LET df == self.df
        at == {i \in 1..Len(df.index) : df.index[i] = dt}
    IN  IF Len(row) # Len(df.columns) THEN Raised(self, "ValueError", <<>>)
        ELSE IF at = {}
        THEN Returned([self EXCEPT !.df.index = Append(df.index, dt),
                                   !.df.rows = Append(df.rows, row)], <<>>)
        ELSE Returned([self EXCEPT !.df.rows =
                          [i \in 1..Len(df.rows) |->
                              IF i \in at THEN row ELSE df.rows[i]]], <<>>)

\* wudr_analysis.DataCollector.make_empty_df: the columns of self.df and
\* its index, the last days of the months ('m') or of the years ('y') of
\* 2008..2013, as year * 100 + month.  A row of <<>> is a row of NaN; the
\* values of a row are named after the variables they come from.
make_empty_df(monthly) ==
    LET index ==
            IF monthly
            THEN [i \in 1..(12 * Len(YEARS)) |->
                     YEARS[(i - 1) \div 12 + 1] * 100 + ((i - 1) % 12) + 1]
            ELSE [i \in 1..Len(YEARS) |-> YEARS[i] * 100 + 12]
    IN  [columns |-> <<"name", "code", "gridmet_ppt", "gridmet_etr",
                       "agrimet_etr_pm_provided", "agrimet_etr_calculated",
                       "ratio_agrimet_to_gridmet", "eff_ppt_crop_coef",
                       "gridmet_eff_ppt", "agrimet_eff_ppt", "Acres_Tot",
                       "Acres_Project", "Projects", "Sq_Meters", "Acres_Irr",
                       "Sq_Meters_Irr", "Weighted_Mean_ET_mm", "Crop_Cons_mm",
                       "ET_m3", "ET_af", "Crop_Cons_m3", "Crop_Cons_af",
                       "pivot", "sprinkler", "flood">>,
         index |-> index,
         rows |-> [i \in 1..Len(index) |-> <<>>]]

\* polygon_met.DataCollector.make_empty_df.
polygon_make_empty_df ==
    [columns |-> <<"name", "code", "gridmet_ppt", "gridmet_etr",
                   "agrimet_etr_pm_provided", "agrimet_etr_calculated",
                   "ratio_grit_to_agri", "eff_ppt_crop_coef",
                   "gridmet_eff_ppt", "agrimet_eff_ppt", "Acres_Tot",
                   "Sq_Meters", "Acres_Irr", "Sq_Meters_Irr",
                   "Weighted_Mean_ET_mm", "Crop_Cons_mm", "ET_m3", "ET_af",
                   "Crop_Cons_m3", "Crop_Cons_af", "pivot", "sprinkler",
                   "flood">>,
     index |-> [i \in 1..Len(YEARS) |-> YEARS[i] * 100 + 12],
     rows |-> [i \in 1..Len(YEARS) |-> <<>>]]

\* wudr_analysis.DataCollector.__init__ on its arguments a:
\* Agrimet.__init__ on the station or the coordinates, then the fields of
\* the collector.
DataCollector(a) ==
    LET collector(r) ==
            IF r.status = "raised" THEN Raised(NoAgrimet, r.exc, <<>>)
            ELSE Returned(r.self @@ [class |-> "wudr_analysis",
                                    monthly |-> a.monthly,
                                    df |-> make_empty_df(a.monthly),
                                    first |-> TRUE, project |-> a.project,
                                    table |-> a.table, lat |-> a.lat,
                                    lon |-> a.lon, elev |-> None,
                                    station_rank |-> 0], <<>>)
    IN  collector(__init__([start_date |-> None, end_date |-> None,
                            station |-> a.station, interval |-> None,
                            lat |-> a.lat, lon |-> a.lon,
                            sat_image |-> None, write_stations |-> FALSE]))

\* polygon_met.DataCollector.__init__.
polygon_DataCollector(a) ==
    LET collector(r) ==
            IF r.status = "raised" THEN Raised(NoAgrimet, r.exc, <<>>)
            ELSE Returned(r.self @@ [class |-> "polygon_met",
                                    df |-> polygon_make_empty_df,
                                    first |-> TRUE, project |-> a.project,
                                    table |-> a.table, lat |-> a.lat,
                                    lon |-> a.lon, elev |-> None,
                                    station_rank |-> 0], <<>>)
    IN  collector(__init__([start_date |-> None, end_date |-> None,
                            station |-> a.station, interval |-> None,
                            lat |-> a.lat, lon |-> a.lon,
                            sat_image |-> None, write_stations |-> FALSE]))

\* count_irrigation_types: the fractions of pivot, sprinkler and flood.
count_irrigation_types(data) == data \o <<"p", "s", "f">>

\* wudr_analysis.DataCollector.project_summary.
project_summary(self, yr, data_list) ==
    loc(self, yr * 100 + 12,
        count_irrigation_types(
            data_list
            \o <<"acres_tot", "acres_proj", "intersect_project", "sq_m_tot",
                 "acres_irr", "sq_m_irr">>
            \o <<"mean_mm", "cc_mean_mm", "et_vol_yr_m3", "et_vol_yr_af",
                 "cc_vol_yr_cm", "cc_vol_yr_af">>))

\* wudr_analysis.DataCollector.oe_project_summary.
oe_project_summary(self, yr, data_list) ==
    loc(self, yr * 100 + 12,
        count_irrigation_types(
            data_list
            \o <<"acres_tot", "sq_m_tot", "acres_irr", "sq_m_irr">>
            \o <<"mean_mm", "cc_mean_mm", "et_vol_yr_m3", "et_vol_yr_af",
                 "cc_vol_yr_cm", "cc_vol_yr_af">>))

\* polygon_met.DataCollector.project_summary and oe_project_summary: the
\* same four areas and six volumes, of all fields or of the irrigated ones.
polygon_project_summary(self, yr, data_list) ==
    loc(self, yr * 100 + 12,
        count_irrigation_types(
            data_list
            \o <<"acres_tot", "sq_m_tot", "acres_irr", "sq_m_irr">>
            \o <<"mean_mm", "cc_mean_mm", "et_vol_yr_m3", "et_vol_yr_af",
                 "cc_vol_yr_cm", "cc_vol_yr_af">>))

polygon_oe_project_summary(self, yr, data_list) ==
    loc(self, yr * 100 + 12,
        count_irrigation_types(
            data_list
            \o <<"acres_tot", "sq_m_tot", "acres_irr", "sq_m_irr">>
            \o <<"mean_mm", "cc_mean_mm", "et_vol_yr_m3", "et_vol_yr_af",
                 "cc_vol_yr_cm", "cc_vol_yr_af">>))

\* The first two values of a row: the name and the code of the table.
name_and_code(self) ==
    IF self.project = "co" THEN <<"COUNTY_KEY[self.table]", "self.table">>
    ELSE IF self.project = "huc" /\ self.class = "wudr_analysis"
    THEN <<"self.table.replace('MT_', '')", "None">>
    ELSE <<"self.table", "None">>

\* The services of a year (get_gridmet, get_agrimet_etr, get_agrimet_crop)
\* behind self.station_coords[self.station]: station_coords is a dict of
\* the stations only when find_closest_station made it, together with
\* self.distances; a tuple or None is a TypeError.  env.fails names, for a
\* station, the year (1..6) in which the services raise, or 0.  The first
\* year sets self.elev to the elevation of the station.
services(self, env, i) ==
    LET coords ==
            LET sc == self.station_coords[1]
                at == CHOOSE k \in 1..Len(sc) : Some(sc[k][1]) = self.station
            IN  Some(sc[at][2])
    IN  IF self.distances = None THEN Raised(self, "TypeError", <<>>)
        ELSE IF env.fails[self.station[1]] = i
        THEN Raised(self, "Exception", <<>>)
        ELSE IF i = 1 THEN Returned([self EXCEPT !.elev = coords], <<>>)
        ELSE Returned(self, <<>>)

\* The body of the try statement of get_table_data_annual, from the year
\* YEARS[i] on.  Exception('Choose a valid project type.') is built and
\* dropped: nothing is raised.
RECURSIVE annual_years(_, _, _)
annual_years(self, env, i) ==
    LET data == name_and_code(self)
                \o <<"season_ppt", "season_grid_etr", "season_agri_etr",
                     "season_agri_etr_calc", "ratio", "s_crop_coef_eff_ppt",
                     "s_grid_eff_ppt", "s_agri_eff_ppt">>
        summary(met) ==
            IF met.status = "raised" THEN met
            ELSE IF self.project = "oe"
            THEN oe_project_summary(met.self, YEARS[i], data)
            ELSE IF self.project \in {"huc", "co"}
            THEN project_summary(met.self, YEARS[i], data)
            ELSE Returned(met.self, <<>>)
        following(done) ==
            IF done.status = "raised" THEN done
            ELSE annual_years(done.self, env, i + 1)
    IN  IF i > Len(YEARS) THEN Returned(self, <<>>)
        ELSE following(summary(services(self, env, i)))

\* The same body in polygon_met.DataCollector.get_table_data.
RECURSIVE polygon_years(_, _, _)
polygon_years(self, env, i) ==
    LET data == name_and_code(self)
                \o <<"season_ppt", "season_grid_etr", "season_agri_etr",
                     "season_agri_etr_calc", "ratio", "s_crop_coef_eff_ppt",
                     "s_grid_eff_ppt", "s_agri_eff_ppt">>
        summary(met) ==
            IF met.status = "raised" THEN met
            ELSE IF self.project = "oe"
            THEN polygon_oe_project_summary(met.self, YEARS[i], data)
            ELSE IF self.project \in {"huc", "co"}
            THEN polygon_project_summary(met.self, YEARS[i], data)
            ELSE Returned(met.self, <<>>)
        following(done) ==
            IF done.status = "raised" THEN done
            ELSE polygon_years(done.self, env, i + 1)
    IN  IF i > Len(YEARS) THEN Returned(self, <<>>)
        ELSE following(summary(services(self, env, i)))

\* The except clause up to the call it ends with: the rank goes up by one
\* and the station of that rank becomes self.station; self.distances of
\* None is a TypeError, a rank past its end an IndexError.
fallback_skipping(self) ==
    LET self1 == [self EXCEPT !.station_rank = @ + 2]
    IN  IF self1.distances = None THEN Raised(self1, "TypeError", <<>>)
        ELSE IF self1.station_rank + 1 > Len(self1.distances[1])
        THEN Raised(self1, "IndexError", <<>>)
        ELSE Returned([self1 EXCEPT !.station =
                          Some(self1.distances[1][self1.station_rank + 1][1])],
                      <<>>)

fallback(self) ==
    LET self1 == [self EXCEPT !.station_rank = @ + 1]
    IN  IF self1.distances = None THEN Raised(self1, "TypeError", <<>>)
        ELSE IF self1.station_rank + 1 > Len(self1.distances[1])
        THEN Raised(self1, "IndexError", <<>>)
        ELSE Returned([self1 EXCEPT !.station =
                          Some(self1.distances[1][self1.station_rank + 1][1])],
                      <<>>)

\* polygon_met.DataCollector.get_table_data: a failure of the years is
\* printed with the station, and the call starts over on the next station.
RECURSIVE polygon_get_table_data(_, _)
polygon_get_table_data(self, env) ==
    LET again(next) ==
            IF next.status = "raised"
            THEN [next EXCEPT !.printed = <<self.station>>]
            ELSE [polygon_get_table_data(next.self, env)
                     EXCEPT !.printed = <<self.station>> \o @]
        handled(tried) ==
            IF tried.status = "returned" THEN tried
            ELSE again(fallback(tried.self))
    IN  handled(polygon_years(self, env, 1))

\* wudr_analysis.DataCollector.get_table_data_annual: its except clause
\* ends with self.get_table_data(), a method the class does not have
\* (AttributeError).
get_table_data_annual(self, env) ==
    LET again(next) ==
            IF next.status = "raised"
            THEN [next EXCEPT !.printed = <<self.station>>]
            ELSE Raised(next.self, "AttributeError", <<self.station>>)
        handled(tried) ==
            IF tried.status = "returned" THEN tried
            ELSE again(fallback(tried.self))
    IN  handled(annual_years(self, env, 1))

\* The inner loop of get_table_data_monthly: the months April..October of
\* a year.
RECURSIVE monthly_months(_, _, _)
monthly_months(self, yr, month) ==
    LET summary ==
            name_and_code(self)
            \o <<"m_ppt[i][0]", "m_etr[i][0]", "m_agri_etr[i][0]",
                 "calc_etr[i]", "ratio[i]", "m_crop_use_eff_ppt[i][0]",
                 "m_gridmet_eff_ppt[i][0]", "m_agrimet_eff_ppt[i][0]">>
            \o <<"acres_tot", "acres_proj", "intersect_project", "sq_m_tot",
                 "acres_irr", "sq_m_irr">>
            \o <<"mean_mm", "cc_mean_mm[0]", "et_vol_yr_m3", "et_vol_yr_af",
                 "cc_vol_yr_cm", "cc_vol_yr_af">>
        following(done) ==
            IF done.status = "raised" THEN done
            ELSE monthly_months(done.self, yr, month + 1)
    IN  IF month > 10 THEN Returned(self, <<>>)
        ELSE following(loc(self, yr * 100 + month,
                           count_irrigation_types(summary)))

\* get_table_data_monthly, from the year YEARS[i] on; nothing is caught.
RECURSIVE get_table_data_monthly(_, _, _)
get_table_data_monthly(self, env, i) ==
    LET months(met) ==
            IF met.status = "raised" THEN met
            ELSE monthly_months(met.self, YEARS[i], 4)
        following(done) ==
            IF done.status = "raised" THEN done
            ELSE get_table_data_monthly(done.self, env, i + 1)
    IN  IF i > Len(YEARS) THEN Returned(self, <<>>)
        ELSE following(months(services(self, env, i)))

\* The diversions of the sixteen tables of TABLES in the six years, in
\* acre-feet.
DIVERSIONS ==
    <<58387, 49845, 46556, 51841, 67268, 54393, 12506, 11070,
      9194, 12749, 11751, 13189, 35088, 36270, 34459, 10669,
      18107, 15245, 6891, 10709, 9789, 9651, 9212, 6586,
      22281, 22805, 23495, 21634, 18792, 0, 19074, 0,
      29876, 20972, 33081, 31501, 45642, 52686, 54889, 39324,
      51549, 39929, 51615, 47737, 47645, 44139, 69787, 71415,
      31549, 39940, 39376, 10267, 41650, 28621, 172816, 143366,
      64019, 109572, 193022, 160505, 19702, 15757, 22013, 18504,
      23927, 18081, 258789, 279622, 241730, 253308, 298819, 254453,
      10737, 13888, 6946, 17077, 15632, 10450, 26857, 21223,
      22941, 25759, 26060, 18566, 27556, 22717, 23913, 29053,
      32409, 25694, 361749, 350892, 296019, 197893, 359238, 306591>>

\* DataFrame(): the master table before any table is added to it; its
\* columns DIVERSIONS and EFF are kept beside its rows.
NoMaster ==
    [columns |-> <<>>, index |-> <<>>, rows |-> <<>>, DIVERSIONS |-> <<>>,
     EFF |-> <<>>]

\* d.df.dropna(axis=0, how='all'): the rows that are not all NaN.
dropna(df) ==
    LET kept == {i \in 1..Len(df.index) : df.rows[i] # <<>>}
        nth[k \in 0..Len(df.index)] ==
            IF k = 0 THEN <<>>
            ELSE IF k \in kept THEN Append(nth[k - 1], k) ELSE nth[k - 1]
        take(rows) ==
            [df EXCEPT !.index = [j \in 1..Len(rows) |-> df.index[rows[j]]],
                       !.rows = [j \in 1..Len(rows) |-> df.rows[rows[j]]]]
    IN  take(nth[Len(df.index)])

\* The last lines of build_summary_table and build_summary_table_monthly:
\* with the project 'oe' the list DIVERSIONS becomes a column (a list of
\* another length than the index is a ValueError; a table without an index
\* takes the index of the list), the rows of a diversion of 0 or less are
\* dropped, and EFF is Crop_Cons_af over the diversion, here the pair of
\* the two (a table without the column Crop_Cons_af is a KeyError).
efficiency(master, project) ==
    LET n == Len(DIVERSIONS)
        indexed == IF Len(master.index) = 0
                   THEN [master EXCEPT !.index = [i \in 1..n |-> i - 1],
                                       !.rows = [i \in 1..n |-> <<>>]]
                   ELSE master
        kept == {i \in 1..n : DIVERSIONS[i] > 0}
        nth[k \in 0..n] ==
            IF k = 0 THEN <<>>
            ELSE IF k \in kept THEN Append(nth[k - 1], k) ELSE nth[k - 1]
        at == {j \in 1..Len(master.columns) : master.columns[j] = "Crop_Cons_af"}
        take(rows) ==
            [columns |-> master.columns \o <<"DIVERSIONS", "EFF">>,
             index |-> [j \in 1..Len(rows) |-> indexed.index[rows[j]]],
             rows |-> [j \in 1..Len(rows) |-> indexed.rows[rows[j]]],
             DIVERSIONS |-> [j \in 1..Len(rows) |-> DIVERSIONS[rows[j]]],
             EFF |-> [j \in 1..Len(rows) |->
                        <<indexed.rows[rows[j]][CHOOSE c \in at : TRUE],
                          DIVERSIONS[rows[j]]>>]]
    IN  IF project # "oe" THEN Returned(master, <<>>)
        ELSE IF Len(master.index) # 0 /\ Len(master.index) # n
        THEN Raised(NoMaster, "ValueError", <<>>)
        ELSE IF at = {} THEN Raised(NoMaster, "KeyError", <<>>)
        ELSE Returned(take(nth[n]), <<>>)

\* The loop of build_summary_table over the tables of source, from the
\* i-th on: a table without a file is skipped (FileNotFoundError), the
\* collector of another is built on the coordinates of its shapefile and
\* asked for get_table_data, a method wudr_analysis.DataCollector does
\* not have (AttributeError).
RECURSIVE annual_tables(_, _, _, _, _, _, _)
annual_tables(source, found, coords, project, env, master, i) ==
    LET asked(d) ==
            IF d.status = "raised" THEN Raised(NoMaster, d.exc, <<>>)
            ELSE Raised(NoMaster, "AttributeError", <<>>)
    IN  IF i > Len(source) THEN Returned(master, <<>>)
        ELSE IF source[i] \notin found
        THEN annual_tables(source, found, coords, project, env, master, i + 1)
        ELSE asked(DataCollector([project |-> project, table |-> source[i],
                                  station |-> None, lat |-> coords[1],
                                  lon |-> coords[2], monthly |-> FALSE]))

build_summary_table(source, found, coords, project, env) ==
    LET finish(made) ==
            IF made.status = "raised" THEN made
            ELSE efficiency(made.self, project)
    IN  finish(annual_tables(source, found, coords, project, env, NoMaster, 1))

\* The loop of build_summary_table_monthly.
RECURSIVE monthly_tables(_, _, _, _, _, _, _)
monthly_tables(source, found, coords, project, env, master, i) ==
    LET concat(df) ==
            [master EXCEPT !.columns = df.columns, !.index = @ \o df.index,
                           !.rows = @ \o df.rows]
        added(got) ==
            IF got.status = "raised" THEN Raised(NoMaster, got.exc, <<>>)
            ELSE monthly_tables(source, found, coords, project, env,
                                concat(dropna(got.self.df)), i + 1)
        asked(d) ==
            IF d.status = "raised" THEN Raised(NoMaster, d.exc, <<>>)
            ELSE added(get_table_data_monthly(d.self, env, 1))
    IN  IF i > Len(source) THEN Returned(master, <<>>)
        ELSE IF source[i] \notin found
        THEN monthly_tables(source, found, coords, project, env, master, i + 1)
        ELSE asked(DataCollector([project |-> project, table |-> source[i],
                                  station |-> None, lat |-> coords[1],
                                  lon |-> coords[2], monthly |-> TRUE]))

build_summary_table_monthly(source, found, coords, project, env) ==
    LET finish(made) ==
            IF made.status = "raised" THEN made
            ELSE efficiency(made.self, project)
    IN  finish(monthly_tables(source, found, coords, project, env, NoMaster, 1))

\* ------------------------------------------------------------------------
\* The life of a DataCollector
\* ------------------------------------------------------------------------

\* What the services do: for every station the year of YEARS (by position)
\* in which they raise, or 0.
Environments ==
    {[fails |-> f] :
        f \in [{StationData[i].siteid : i \in 1..Len(StationData)} -> {0, 1, 3}]}

\* No call yet: the last call, its arguments, that it returned or what it
\* raised, what it printed, and the table or the files it wrote.
NoCollectorOut ==
    [op |-> "none", args |-> <<>>, status |-> "none", exc |-> "",
     printed |-> <<>>, master |-> NoMaster, files |-> <<>>]

\* wudr_analysis.DataCollector(...): the constructor runs once.
NewDataCollector ==
    /\ ~ag.exists
    /\ out.op = "none"
    /\ \E project \in {"oe", "huc", "co", "xx"}, station \in {None, Some("abei")},
          lat \in LatArgs, monthly \in BOOLEAN :
          LET a == [project |-> project, table |-> "Eldorado",
                    station |-> station, lat |-> lat,
                    lon |-> IF lat = None THEN None ELSE Some(0 - 113),
                    monthly |-> monthly]
          IN  \E r \in {DataCollector(a)} :
                  /\ ag' = r.self
                  /\ out' = [NoCollectorOut EXCEPT
                                !.op = "DataCollector", !.args = a,
                                !.status = r.status, !.exc = r.exc]
    /\ UNCHANGED <<op, args, ret, pc, D, prev>>

\* polygon_met.DataCollector(...).
NewPolygonDataCollector ==
    /\ ~ag.exists
    /\ out.op = "none"
    /\ \E project \in {"oe", "huc", "co", "xx"}, station \in {None, Some("abei")},
          lat \in LatArgs :
          LET a == [project |-> project, table |-> "Eldorado",
                    station |-> station, lat |-> lat,
                    lon |-> IF lat = None THEN None ELSE Some(0 - 113),
                    monthly |-> FALSE]
          IN  \E r \in {polygon_DataCollector(a)} :
                  /\ ag' = r.self
                  /\ out' = [NoCollectorOut EXCEPT
                                !.op = "DataCollector", !.args = a,
                                !.status = r.status, !.exc = r.exc]
    /\ UNCHANGED <<op, args, ret, pc, D, prev>>

\* d = DataCollector(...); d.get_table_data(): a collector of polygon_met
\* is asked once, as build_summary_table does; out.args keeps the station
\* and the rank the call started with.
GetTableData ==
    /\ ag.exists
    /\ ag.class = "polygon_met"
    /\ out.op = "DataCollector"
    /\ \E env \in Environments :
          \E r \in {polygon_get_table_data(ag, env)} :
              /\ ag' = r.self
              /\ out' = [NoCollectorOut EXCEPT
                            !.op = "get_table_data",
                            !.args = [env |-> env, station |-> ag.station,
                                      station_rank |-> ag.station_rank],
                            !.status = r.status, !.exc = r.exc,
                            !.printed = r.printed]
    /\ UNCHANGED <<op, args, ret, pc, D, prev>>

\* d.get_table_data_annual() on a collector of wudr_analysis.
GetTableDataAnnual ==
    /\ ag.exists
    /\ ag.class = "wudr_analysis"
    /\ out.op = "DataCollector"
    /\ \E env \in Environments :
          \E r \in {get_table_data_annual(ag, env)} :
              /\ ag' = r.self
              /\ out' = [NoCollectorOut EXCEPT
                            !.op = "get_table_data_annual",
                            !.args = [env |-> env, station |-> ag.station,
                                      station_rank |-> ag.station_rank],
                            !.status = r.status, !.exc = r.exc,
                            !.printed = r.printed]
    /\ UNCHANGED <<op, args, ret, pc, D, prev>>

\* d.get_table_data_monthly() on a collector of wudr_analysis.
GetTableDataMonthly ==
    /\ ag.exists
    /\ ag.class = "wudr_analysis"
    /\ out.op = "DataCollector"
    /\ \E env \in Environments :
          \E r \in {get_table_data_monthly(ag, env, 1)} :
              /\ ag' = r.self
              /\ out' = [NoCollectorOut EXCEPT
                            !.op = "get_table_data_monthly",
                            !.args = [env |-> env, station |-> ag.station,
                                      station_rank |-> ag.station_rank],
                            !.status = r.status, !.exc = r.exc,
                            !.printed = r.printed]
    /\ UNCHANGED <<op, args, ret, pc, D, prev>>

\* build_summary_table(...) of wudr_analysis: the tables of the source
\* that have a file, and the coordinates their shapefiles give.
BuildSummaryTable ==
    /\ ~ag.exists
    /\ out.op = "none"
    /\ \E source \in {<<"Eldorado", "Glasgow_ID">>}, found \in SUBSET {"Eldorado", "Glasgow_ID"},
          lat \in LatArgs \ {None}, project \in {"oe", "huc", "co", "xx"},
          env \in Environments :
          \E r \in {build_summary_table(source, found, <<lat, Some(0 - 113)>>,
                                        project, env)} :
              out' = [NoCollectorOut EXCEPT
                         !.op = "build_summary_table",
                         !.args = [source |-> source, found |-> found,
                                   lat |-> lat, project |-> project,
                                   env |-> env],
                         !.status = r.status, !.exc = r.exc,
                         !.master = r.self]
    /\ UNCHANGED <<op, args, ret, pc, D, prev, ag>>

BuildSummaryTableMonthly ==
    /\ ~ag.exists
    /\ out.op = "none"
    /\ \E source \in {<<"Eldorado", "Glasgow_ID">>}, found \in SUBSET {"Eldorado", "Glasgow_ID"},
          lat \in LatArgs \ {None}, project \in {"oe", "huc", "co", "xx"},
          env \in Environments :
          \E r \in {build_summary_table_monthly(source, found,
                                                <<lat, Some(0 - 113)>>,
                                                project, env)} :
              out' = [NoCollectorOut EXCEPT
                         !.op = "build_summary_table_monthly",
                         !.args = [source |-> source, found |-> found,
                                   lat |-> lat, project |-> project,
                                   env |-> env],
                         !.status = r.status, !.exc = r.exc,
                         !.master = r.self]
    /\ UNCHANGED <<op, args, ret, pc, D, prev, ag>>

InitCollector ==
    /\ op = NoCall.op
    /\ args = NoArgs
    /\ ret = 0
    /\ pc = "collector"
    /\ D = D_import
    /\ prev = NoCall
    /\ ag = NoAgrimet
    /\ out = NoCollectorOut

NextCollector ==
    \/ NewDataCollector
    \/ NewPolygonDataCollector
    \/ GetTableData
    \/ GetTableDataAnnual
    \/ GetTableDataMonthly
    \/ BuildSummaryTable
    \/ BuildSummaryTableMonthly

\* A collector is built and asked for its tables, or a summary table is
\* built.
SpecCollector == InitCollector /\ [][NextCollector]_vars

\* ------------------------------------------------------------------------
\* utils/split_shapefile.py
\* ------------------------------------------------------------------------

\* '{}'.format(key): the text of a value of an attribute; a null is None,
\* and its text is 'None'.
format(key) == IF key = None THEN "None" ELSE key[1]

\* dct[key].append(feat), or dct[key] = [feat] for a key the dict does not
\* have yet: the dict is a sequence of (key, features) in insertion order.
append_to(dct, key, feat) ==
    IF \E i \in 1..Len(dct) : dct[i][1] = key
    THEN [i \in 1..Len(dct) |->
             IF dct[i][1] = key THEN <<key, Append(dct[i][2], feat)>>
             ELSE dct[i]]
    ELSE Append(dct, <<key, <<feat>>>>)

\* The first loop of split_shapefile_by_attribute: the features read so
\* far, by the value of the attribute.
RECURSIVE by_attribute(_, _, _)
by_attribute(vector, attribute, n) ==
    IF n = 0 THEN <<>>
    ELSE append_to(by_attribute(vector, attribute, n - 1),
                   vector[n].properties[attribute], vector[n])

\* The second loop: every key of the dict opens the file of its text for
\* writing, which empties a file of that name, and writes its features.
RECURSIVE write_all(_, _)
write_all(dct, n) ==
    IF n = 0 THEN <<>>
    ELSE LET written == write_all(dct, n - 1)
             new_shape == format(dct[n][1])
         IN  SelectSeq(written, LAMBDA f : f.name # new_shape)
             \o <<[name |-> new_shape, features |-> dct[n][2]]>>

\* split_shapefile_by_attribute(vector, attribute, out_loc): the files of
\* out_loc afterwards and the names printed; an attribute the features do
\* not have is a KeyError, raised on the first feature.
split_shapefile_by_attribute(vector, attribute) ==
    LET dct == by_attribute(vector, attribute, Len(vector))
    IN  IF \E i \in 1..Len(vector) : attribute \notin DOMAIN vector[i].properties
        THEN [status |-> "raised", exc |-> "KeyError", files |-> <<>>,
              printed |-> <<>>]
        ELSE [status |-> "returned", exc |-> "",
              files |-> write_all(dct, Len(dct)),
              printed |-> [i \in 1..Len(dct) |-> format(dct[i][1])]]

\* The most features of a shapefile.
MaxFeatures == 3

\* The shapefiles: up to MaxFeatures features, numbered as they are read;
\* the values of the attribute NAMEABBR are texts, or a null.
Vectors ==
    {[i \in 1..Len(values) |->
         [id |-> i, properties |-> [NAMEABBR |-> values[i]]]] :
        values \in UNION {[1..n -> {None, Some("BE"), Some("GA"), Some("None")}] :
                              n \in 0..MaxFeatures}}

SplitShapefileByAttribute ==
    /\ pc = "split"
    /\ \E r \in {split_shapefile_by_attribute(args.vector, args.attribute)} :
          out' = [NoCollectorOut EXCEPT !.op = "split_shapefile_by_attribute",
                                 !.args = args, !.status = r.status,
                                 !.exc = r.exc, !.files = r.files,
                                 !.printed = r.printed]
    /\ pc' = "done"
    /\ UNCHANGED <<op, args, ret, D, prev, ag>>

InitSplit ==
    /\ op = "split_shapefile_by_attribute"
    /\ \E vector \in Vectors, attribute \in {"NAMEABBR", "COUNTY"} :
          args = [vector |-> vector, attribute |-> attribute]
    /\ ret = 0
    /\ pc = "split"
    /\ D = D_import
    /\ prev = NoCall
    /\ ag = NoAgrimet
    /\ out = NoCollectorOut

\* A shapefile is split once.
SpecSplit == InitSplit /\ [][SplitShapefileByAttribute]_vars

\* ------------------------------------------------------------------------
\* Properties
\* ------------------------------------------------------------------------

Done(f) == pc = "done" /\ op = f

\* The Hargreaves estimate before the cap, for the call's arguments.
Uncapped ==
    sol_rad_from_t_uncapped(args.et_rad, args.cs_rad, args.tmin, args.tmax,
                            args.coastal)

\* C1: whenever tmin <= tmax, the value sol_rad_from_t returns is less than
\* or equal to the clear-sky radiation it was given, for every Ra, Rso and
\* either value of coastal.
C1_ClearSkyBound ==
    (Done("sol_rad_from_t") /\ args.tmin <= args.tmax) => Le(ret, args.cs_rad)

\* The cap has acted: the estimate was above the clear-sky radiation.
C1_Witness ==
    /\ Done("sol_rad_from_t")
    /\ args.tmin < args.tmax
    /\ Lt(args.cs_rad, Uncapped)
    /\ ret = args.cs_rad

\* C2: for latitudes in [-pi/2, pi/2] and declinations in [-0.41, 0.41],
\* sunset_hour_angle hands arccos an argument within [-1, 1] and returns a
\* number in [0, pi], never NaN; a cosine >= 1 before the clamp gives 0 and a
\* cosine <= -1 gives pi.
C2_SunsetHourAngleDomain ==
    Done("sunset_hour_angle") =>
        LET c == cos_sha(args.lat, args.sol_dec)
            a == sha_clamped(args.lat, args.sol_dec)
        IN  /\ IsFinite(a) /\ 0 - FP <= a /\ a <= FP
            /\ IsFinite(ret) /\ 0 <= ret /\ ret <= pi
            /\ (Le(FP, c) => ret = 0)
            /\ (Le(c, 0 - FP) => ret = pi)

\* The clamp has acted: the cosine was above 1 (polar night).
C2_Witness ==
    /\ Done("sunset_hour_angle")
    /\ Lt(FP, cos_sha(args.lat, args.sol_dec))
    /\ ret = 0

\* C3: get_net_radiation returns net_sw_radiation minus net_lw_radiation of
\* the same site and day (NaN when either is NaN).
C3_NetIsShortMinusLong ==
    Done("get_net_radiation") =>
        ret = Sub(net_sw_radiation(args.elevation, args.albedo, args.doy,
                                   args.lat),
                  net_lw_radiation(args.tmin, args.tmax, args.doy,
                                   args.elevation, args.lat))

\* A site and day with sunshine and a positive longwave loss.
C3_Witness ==
    /\ Done("get_net_radiation")
    /\ IsFinite(ret)
    /\ Lt(0, net_lw_radiation(args.tmin, args.tmax, args.doy, args.elevation,
                              args.lat))
    /\ Lt(ret, net_sw_radiation(args.elevation, args.albedo, args.doy,
                                args.lat))

\* C4: on valid inputs (tmin <= tmax, latitude in [-pi/2, pi/2], day 1..366,
\* elevation >= 0) net_lw_radiation and get_net_radiation return a defined
\* number, the polar night included.
C4_TotalOnValidInputs ==
    (pc = "done" /\ op \in {"net_lw_radiation", "get_net_radiation"}
        /\ args.tmin <= args.tmax)
    => IsFinite(ret)

\* C5: when tmax < tmin, sol_rad_from_t, net_lw_radiation and
\* get_net_radiation return NaN: the invalid estimate is neither zeroed nor
\* replaced by the clear-sky value.
C5_InvalidTemperaturesGiveNaN ==
    (pc = "done"
        /\ op \in {"sol_rad_from_t", "net_lw_radiation", "get_net_radiation"}
        /\ args.tmax < args.tmin)
    => IsNaN(ret)

\* NaN from the temperatures alone: the site's shortwave radiation is a
\* positive number.
C5_Witness ==
    /\ Done("get_net_radiation")
    /\ args.tmax < args.tmin
    /\ Lt(0, net_sw_radiation(args.elevation, args.albedo, args.doy, args.lat))
    /\ IsNaN(ret)

\* C6: for a fixed reference ET, effective_precip does not decrease when
\* the precipitation increases: p1 <= p2 gives
\* effective_precip(p1, ref_et) <= effective_precip(p2, ref_et).
C6_MonotoneInPrecip ==
    Done("effective_precip") =>
        \A p1 \in Precips :
            p1 <= args.precip => Le(effective_precip(p1, args.ref_et), ret)

\* More rain, strictly more effective precipitation.
C6_Witness ==
    /\ Done("effective_precip")
    /\ args.precip > 0
    /\ Lt(effective_precip(0, args.ref_et), ret)

\* C7: for precip >= 0 and ref_et >= 0, effective_precip lies between 0 and
\* precip.
C7_FractionOfPrecip ==
    (Done("effective_precip") /\ args.precip >= 0 /\ args.ref_et >= 0)
    => (Le(0, ret) /\ Le(ret, args.precip))

\* The worked example: 50 mm of precipitation, 150 mm of reference ET.
WorkedExample ==
    Done("effective_precip") /\ args.precip = 50 * FP /\ args.ref_et = 150 * FP

\* prev is an earlier call of the same function on the same arguments.
SameCallBefore == prev.op = op /\ prev.args = args

\* C8: effective_precip(50 mm, 150 mm), with D = 3.0 inches, is strictly
\* between 0 and 50 mm, and every run returns the same value.
C8_WorkedExample ==
    WorkedExample =>
        /\ Lt(0, ret) /\ Lt(ret, 50 * FP)
        /\ (SameCallBefore => prev.ret = ret)

\* The worked example has run twice.
C8_Witness == WorkedExample /\ D = 3 * FP /\ SameCallBefore

\* C9: the computations are pure: a call returns what an earlier call on
\* the same arguments returned, whatever was called in between, and the
\* module-level state the computations read (D) is as it was at import.
C9_Pure ==
    /\ D = D_import
    /\ (pc = "done" /\ SameCallBefore) => prev.ret = ret

\* A second call on the arguments of a remembered one, other calls having
\* been made in between.
C9_Witness ==
    /\ pc = "done"
    /\ SameCallBefore
    /\ op \in {"effective_precip", "get_net_radiation"}
    /\ IsFinite(ret) /\ ret # 0

\* The National Engineering Handbook formula, in inches:
\* sf ((0.70917 P)^0.82416 - 0.11556) 10^(0.02426 ETc), with
\* sf = 0.531747 + 0.295164 d - 0.057697 d^2 + 0.003804 d^3.
HandbookInches(p, e, d) ==
    LET sf == 5317 + MulFP(2952, d) - MulFP(577, MulFP(d, d))
              + MulFP(38, MulFP(MulFP(d, d), d))
    IN  Mul(Mul(sf, Sub(Pow(Mul(7092, p), 8242), 1156)),
            Pow(10 * FP, Mul(243, e)))

Reformatted ==
    /\ out.op = "fetch_met_data"
    /\ out.status = "returned"
    /\ ~out.args.return_raw

\* The documented conversion of a column.
Documented(col, v) ==
    IF col \in {"ET", "ETOS", "ETRS", "PC", "PP", "PU"} THEN Mul(v, 254000)
    ELSE IF col \in {"MN", "MX", "MM", "YM"}
         THEN Div(Mul(Sub(v, 32 * FP), 5 * FP), 9 * FP)
    ELSE IF col \in {"UA", "WG"} THEN Mul(v, 4470)
    ELSE IF col = "WR" THEN Mul(v, 16093400)
    ELSE IF col = "SR" THEN Div(v, 239006)
    ELSE v

C12_LangleysToJoules ==
    Reformatted =>
        \A r \in 1..Len(out.raw.index) :
            IsFinite(cell(out.raw, r, "sr")) =>
                Abs(Div(cell(out.value, r, "SR"), 41868 * FP)
                        - cell(out.raw, r, "sr")) <= 100

\* C13: converting back returns the raw value within 0.01: the raw
\* Fahrenheit value a and the reformatted Celsius value b satisfy
\* a = b * 1.8 + 32, the raw inches are the reformatted millimetres divided
\* by 25.4, and likewise for mph and miles.
C13_Reciprocal ==
    Reformatted =>
        \A r \in 1..Len(out.raw.index) :
            /\ \A c \in {"mm", "mn", "mx", "ym"} :
                  IsFinite(cell(out.raw, r, c)) =>
                      Abs(Add(Mul(cell(out.value, r, upper(c)), 18000), 32 * FP)
                              - cell(out.raw, r, c)) <= 100
            /\ \A c \in {"et", "etos", "etrs", "pp", "pu"} :
                  IsFinite(cell(out.raw, r, c)) =>
                      Abs(Div(cell(out.value, r, upper(c)), 254000)
                              - cell(out.raw, r, c)) <= 100
            /\ \A c \in {"ua", "wg"} :
                  IsFinite(cell(out.raw, r, c)) =>
                      Abs(Div(cell(out.value, r, upper(c)), 4470)
                              - cell(out.raw, r, c)) <= 100
            /\ IsFinite(cell(out.raw, r, "wr")) =>
                   Abs(Div(cell(out.value, r, "WR"), 16093400)
                           - cell(out.raw, r, "wr")) <= 100

\* A reformatted table whose minimum temperature was 52.5 degrees
\* Fahrenheit and is about 11.39 degrees Celsius.
C13_Witness ==
    /\ Reformatted
    /\ Len(out.raw.index) > 2
    /\ cell(out.raw, 3, "mn") = 525000
    /\ Abs(cell(out.value, 3, "MN") - 113889) <= 2

\* The constructor was given coordinates and nothing else.
OnlyCoordinates ==
    /\ out.op = "__init__"
    /\ out.args.station = None
    /\ out.args.sat_image = None
    /\ ~out.args.write_stations
    /\ out.args.lat # None
    /\ out.args.lon # None

\* The distance of station i of the list to the constructor's coordinates.
DistanceTo(i) ==
    geodesic(<<out.args.lat[1], out.args.lon[1]>>,
             <<StationData[i].coordinates[2], StationData[i].coordinates[1]>>)

\* C14: constructed with only coordinates, the object's station is a
\* station of the loaded list that no other station is closer than.
C14_NearestStation ==
    OnlyCoordinates =>
        /\ out.status = "returned"
        /\ \E i \in 1..Len(StationData) :
              /\ ag.station = Some(StationData[i].siteid)
              /\ \A j \in 1..Len(StationData) : DistanceTo(i) <= DistanceTo(j)

\* et_rad has returned for the equator on day 80.
EquatorEquinox == Done("et_rad") /\ args.lat = 0 /\ args.doy = 80

\* C15, as stated: et_rad for latitude 0 on day 80 is within 0.5 of 15.2.
C15_EquatorEquinox_15 == EquatorEquinox => Abs(ret - 152000) <= 5000

\* C15, amended: et_rad for latitude 0 on day 80, with the declination, the
\* sunset hour angle and the inverse relative distance of that day, is
\* within 0.5 of 37.8 MJ m-2 day-1.
C15_EquatorEquinox_38 == EquatorEquinox => Abs(ret - 378000) <= 5000

C15_Witness ==
    /\ EquatorEquinox
    /\ args.sol_dec = sol_dec(80)
    /\ args.sha = sunset_hour_angle(0, sol_dec(80))
    /\ args.ird = inv_rel_dist_earth_sun(80)
    /\ ret > 37 * FP

\* get_net_radiation has returned for the mid-latitude site: 0.81 rad,
\* 1000 m, albedo 0.23, day 172, 10 and 25 degrees Celsius (in kelvin).
MidLatitudeSite ==
    /\ Done("get_net_radiation")
    /\ args.lat = 8100
    /\ args.elevation = 1000 * FP
    /\ args.albedo = 2300
    /\ args.doy = 172
    /\ args.tmin = 2831500
    /\ args.tmax = 2981500

\* C16: the net radiation of the mid-latitude site on the summer solstice
\* is positive.
C16_NetRadiationPositive == MidLatitudeSite => (IsFinite(ret) /\ ret > 0)

\* The site's net radiation: about 20 MJ m-2 day-1, shortwave above longwave.
C16_Witness ==
    /\ MidLatitudeSite
    /\ ret > 15 * FP
    /\ Lt(net_lw_radiation(args.tmin, args.tmax, args.doy, args.elevation,
                           args.lat),
          net_sw_radiation(args.elevation, args.albedo, args.doy, args.lat))

\* C17: for latitudes in [-pi/2, pi/2], the days of the year and elevations
\* >= 0, cs_rad of the elevation and the day's extraterrestrial radiation is
\* a number >= 0, and so is that extraterrestrial radiation.
C17_ClearSkyNonNegative ==
    /\ Done("cs_rad") =>
           /\ args.et_rad = ext_rad_of(args.doy, args.lat)
           /\ IsFinite(ret) /\ ret >= 0
    /\ Done("et_rad") => (IsFinite(ret) /\ ret >= 0)

\* The clear sky of a polar night, and of a day, at 1000 m.
C17_Witness ==
    /\ Done("cs_rad")
    /\ args.elevation = 1000 * FP
    /\ \/ args.et_rad = 0 /\ args.lat = HalfPi /\ ret = 0
       \/ args.et_rad > 0 /\ args.lat = 0 - HalfPi /\ ret > args.et_rad \div 2

\* C18: net_sw_radiation is (1 - albedo) times cs_rad of the elevation and
\* the day's extraterrestrial radiation, and net_lw_radiation is computed
\* from that same extraterrestrial and clear-sky radiation.
C18_SameClearSky ==
    LET ra == ext_rad_of(args.doy, args.lat)
        rso == cs_rad(args.elevation, ra)
    IN  /\ Done("net_sw_radiation") => ret = Mul(Sub(FP, args.albedo), rso)
        /\ Done("net_lw_radiation") =>
               ret = net_out_lw_rad(args.tmin, args.tmax,
                                    sol_rad_from_t(ra, rso, args.tmin,
                                                   args.tmax, FALSE),
                                    rso, avp_from_tmin(args.tmin))

\* Shortwave radiation at 1000 m, where the elevation matters.
C18_Witness ==
    /\ Done("net_sw_radiation")
    /\ args.elevation = 1000 * FP
    /\ ret > 0
    /\ ret = Mul(Sub(FP, args.albedo), cs_rad(args.elevation,
                                            ext_rad_of(args.doy, args.lat)))
    /\ ret # Mul(Sub(FP, args.albedo), cs_rad(0, ext_rad_of(args.doy, args.lat)))

\* The constructor raised its ValueError.
MustInitialize ==
    /\ out.status = "raised"
    /\ out.exc = "ValueError: Must initialize agrimet with a station, an Image, or some coordinates."

\* C19: without a station, an image, a latitude or write_stations the
\* constructor raises the ValueError before it sends a request; given a
\* station, an image or coordinates it does not raise it.
C19_MustInitialize ==
    out.op = "__init__" =>
        /\ (/\ out.args.station = None
            /\ out.args.sat_image = None
            /\ out.args.lat = None
            /\ ~out.args.write_stations)
               => (MustInitialize /\ out.requests = 0)
        /\ (\/ out.args.station # None
            \/ out.args.sat_image # None
            \/ out.args.lat # None /\ out.args.lon # None)
               => ~MustInitialize

\* The object's dates are in different years.
DifferentYears == ag.start # None /\ Year(ag.start[1]) # Year(ag.end[1])

\* C20: a fetch_crop_data call on an object whose start and end dates are
\* in different years raises the ValueError, sends no request and leaves
\* the object as it was.
C20_OneYear ==
    [][(ag.exists /\ DifferentYears /\ out'.op = "fetch_crop_data")
           => /\ out'.status = "raised"
              /\ out'.exc = "ValueError: Must choose one year for crop water use reports."
              /\ out'.requests = 0
              /\ ag' = ag]_vars

\* The check has stopped a call the service would have answered.
C20_Witness ==
    /\ out.op = "fetch_crop_data"
    /\ DifferentYears
    /\ ag.region # None
    /\ out.status = "raised"
    /\ out.exc = "ValueError: Must choose one year for crop water use reports."
    /\ out.requests = 0

\* A call of get_table_data (polygon_met) or get_table_data_annual
\* (wudr_analysis) has ended.
TableDataAsked == out.op \in {"get_table_data", "get_table_data_annual"}

\* C21: when the project of a DataCollector is none of 'oe', 'huc' and
\* 'co', get_table_data and get_table_data_annual raise an exception with
\* the message 'Choose a valid project type.', instead of ending without
\* a summary row; here on a collector built on coordinates whose nearest
\* station has working services.
C21_ChooseValidProject ==
    (/\ TableDataAsked
     /\ ag.project \notin {"oe", "huc", "co"}
     /\ ag.distances # None
     /\ out.args.env.fails[out.args.station[1]] = 0)
        => (out.status = "raised"
            /\ out.exc = "Exception: Choose a valid project type.")

\* Every station of the environment of the call fails in some year.
EveryStationFails ==
    \A s \in DOMAIN out.args.env.fails : out.args.env.fails[s] # 0

\* C22, as stated: the station fallback of get_table_data ends; the rank
\* goes up by one per failed attempt, and a call on which every station
\* fails ends with an IndexError.
C22_EndsWithIndexError ==
    (out.op = "get_table_data" /\ EveryStationFails)
        => (/\ ag.station_rank = out.args.station_rank + Len(out.printed)
            /\ out.status = "raised"
            /\ out.exc = "IndexError")

\* C22, amended: for a collector built on coordinates the failed attempts
\* of a call are the stations of self.distances from the rank of the call
\* on, one rank each and none twice, with the last attempt they are at most
\* len(self.distances), and the call ends with an IndexError exactly when
\* all of them failed; a collector built on a station has no
\* self.distances, and its call ends with a TypeError after one attempt.
C22_FallbackTerminates ==
    out.op = "get_table_data" =>
        IF ag.distances = None
        THEN out.status = "raised" /\ out.exc = "TypeError"
             /\ Len(out.printed) = 1
             /\ ag.station_rank = out.args.station_rank + 1
        ELSE LET distances == ag.distances[1]
                 failed == out.printed
                 rank == out.args.station_rank
             IN  /\ ag.station_rank = rank + Len(failed)
                 /\ \A i \in 1..Len(failed) :
                       /\ rank + i <= Len(distances)
                       /\ failed[i] = Some(distances[rank + i][1])
                 /\ \A i, j \in 1..Len(failed) :
                       failed[i] = failed[j] => i = j
                 /\ Len(failed) + (IF out.status = "returned" THEN 1 ELSE 0)
                        <= Len(distances)
                 /\ out.status = "raised"
                        => (out.exc = "IndexError"
                            /\ Len(failed) = Len(distances) - rank)
                 /\ EveryStationFails => out.status = "raised"
                 /\ out.status = "returned"
                        => (ag.station = Some(distances[ag.station_rank + 1][1])
                            /\ out.args.env.fails[ag.station[1]] = 0)

\* Every station was tried, nearest first, and the call ended with an
\* IndexError.
C22_Witness ==
    /\ out.op = "get_table_data"
    /\ ag.distances # None
    /\ Len(out.printed) = Len(ag.distances[1])
    /\ Len(out.printed) > 1
    /\ out.exc = "IndexError"
    /\ ag.project = "huc"

\* A call of get_table_data_annual on a collector built on coordinates, of
\* a project whose rows are written by project_summary: the nearest
\* station failed, the services of the next-nearest one work.
NearestFailed ==
    /\ out.op = "get_table_data_annual"
    /\ ag.distances # None
    /\ ag.project \in {"huc", "co"}
    /\ out.args.env.fails[ag.distances[1][1][1]] # 0
    /\ out.args.env.fails[ag.distances[1][2][1]] = 0

\* C23: in get_table_data_annual a failure on the current station makes
\* the next-nearest station of self.distances the station of the
\* collector, and the annual computation is run again for that station.
C23_NextStationRerun ==
    NearestFailed
        => (/\ ag.station = Some(ag.distances[1][2][1])
            /\ ag.station_rank = 1
            /\ out.status = "returned"
            /\ \A i \in 1..Len(ag.df.rows) : ag.df.rows[i] # <<>>)

\* The eight values of the meteorology behind the name and the code.
Meteorology ==
    <<"season_ppt", "season_grid_etr", "season_agri_etr",
      "season_agri_etr_calc", "ratio", "s_crop_coef_eff_ppt",
      "s_grid_eff_ppt", "s_agri_eff_ppt">>

\* C24: every summary row assigned to self.df has exactly one value per
\* column of the frame of make_empty_df: the rows of project_summary, of
\* oe_project_summary and of get_table_data_monthly fit the frame of their
\* collector, in both classes.
C24_OneValuePerColumn ==
    ag.exists =>
        LET data == name_and_code(ag) \o Meteorology
        IN  IF ag.class = "wudr_analysis"
            THEN /\ project_summary(ag, YEARS[1], data).status = "returned"
                 /\ oe_project_summary(ag, YEARS[1], data).status = "returned"
                 /\ monthly_months(ag, YEARS[1], 4).status = "returned"
            ELSE /\ polygon_project_summary(ag, YEARS[1], data).status = "returned"
                 /\ polygon_oe_project_summary(ag, YEARS[1], data).status = "returned"

\* A summary table of the project 'oe' was asked for: some table of the
\* source has a file, the collectors can be built and no service fails.
OeTableAsked ==
    /\ out.op \in {"build_summary_table", "build_summary_table_monthly"}
    /\ out.args.project = "oe"
    /\ out.args.found # {}
    /\ out.args.lat # Some(0)
    /\ \A s \in DOMAIN out.args.env.fails : out.args.env.fails[s] = 0

\* C27: build_summary_table and build_summary_table_monthly with the
\* project 'oe' compute EFF = Crop_Cons_af / DIVERSIONS for the rows of
\* a diversion above 0 only: the table written has no row of a diversion
\* of 0, and every row of it has the diversion of its position as its
\* divisor.
C27_EfficiencyOfDiverted ==
    OeTableAsked
        => (/\ out.status = "returned"
            /\ \A j \in 1..Len(out.master.index) :
                  /\ out.master.DIVERSIONS[j] > 0
                  /\ out.master.EFF[j] = <<"cc_vol_yr_af", out.master.DIVERSIONS[j]>>)

\* find_closest_station has run: the object was built on coordinates or
\* on an image, and this is the state its constructor left.
Searched == ag.exists /\ ag.distances # None /\ out.op = "__init__"

\* The point the stations were measured from.
Target ==
    IF out.args.sat_image = None THEN <<out.args.lat[1], out.args.lon[1]>>
    ELSE <<(out.args.sat_image[1].corner_ll_lat_product
                + out.args.sat_image[1].corner_ul_lat_product) \div 2,
           (out.args.sat_image[1].corner_ll_lon_product
                + out.args.sat_image[1].corner_lr_lon_product) \div 2>>

\* C25: after find_closest_station(lat, lon) has returned the station k,
\* self.distances has one (station, distance) pair per loaded station, by
\* ascending distance, its first entry is k, self.distance_from_station is
\* that smallest distance, and self.station_coords has the (lat, lon) of
\* every station: rank 0 is the current station, rank 1 the next-nearest.
C25_DistancesSorted ==
    Searched =>
        LET distances == ag.distances[1]
            coords == ag.station_coords[1]
            features == StationData
        IN  /\ Len(distances) = Len(features)
            /\ \A f \in 1..Len(features) :
                  /\ \E i \in 1..Len(distances) :
                        /\ distances[i][1] = features[f].siteid
                        /\ distances[i][2] =
                              geodesic(Target, <<features[f].coordinates[2],
                                                 features[f].coordinates[1]>>)
                        /\ \A j \in 1..Len(distances) :
                              distances[j][1] = features[f].siteid => j = i
                  /\ \E i \in 1..Len(coords) :
                        /\ coords[i][1] = features[f].siteid
                        /\ coords[i][2] = <<features[f].coordinates[2],
                                            features[f].coordinates[1]>>
                        /\ \A j \in 1..Len(coords) :
                              coords[j][1] = features[f].siteid => j = i
            /\ \A i, j \in 1..Len(distances) :
                  i < j => distances[i][2] <= distances[j][2]
            /\ ag.station = Some(distances[1][1])
            /\ ag.distance_from_station = Some(distances[1][2])
            /\ \A f \in 1..Len(features) :
                  (\A g \in 1..(f - 1) :
                        geodesic(Target, <<features[g].coordinates[2],
                                           features[g].coordinates[1]>>)
                            > distances[1][2])
                  /\ geodesic(Target, <<features[f].coordinates[2],
                                        features[f].coordinates[1]>>)
                            = distances[1][2]
                  => ag.station = Some(features[f].siteid)

\* Two stations are equally near, and the one loaded first is the station.
C25_Witness ==
    /\ Searched
    /\ ag.distances[1][1][2] = ag.distances[1][2][2]
    /\ ag.station = Some("bozm")

\* C26: Agrimet.empty_df is True after construction, becomes False only
\* when a call of fetch_met_data has more than 3 rows inside the dates
\* asked for, and once False no later operation makes it True again.
C26_EmptyUntilRows ==
    [][/\ (~ag.exists /\ ag'.exists) => ag'.empty_df
       /\ (ag.exists /\ ag.empty_df /\ ~ag'.empty_df)
              => (out'.op = "fetch_met_data" /\ Len(out'.raw.index) > 3)
       /\ (ag.exists /\ ~ag.empty_df) => ~ag'.empty_df]_vars

\* empty_df is False, and the last fetch_met_data had 3 rows or fewer.
C26_Witness ==
    /\ ag.exists
    /\ ~ag.empty_df
    /\ out.op = "fetch_met_data"
    /\ out.status = "returned"
    /\ Len(out.raw.index) <= 3

\* C28: split_shapefile_by_attribute partitions the features by the value
\* of the attribute: every feature read is in exactly one file written,
\* the file named after its value, the features of a file have one value,
\* they are in the order they were read in, and as many features are
\* written as were read.
C28_Partition ==
    (pc = "done" /\ op = "split_shapefile_by_attribute"
     /\ args.attribute = "NAMEABBR")
        => LET vector == args.vector
               files == out.files
               total[n \in 0..Len(files)] ==
                   IF n = 0 THEN 0
                   ELSE total[n - 1] + Len(files[n].features)
           IN  /\ out.status = "returned"
               /\ \A i \in 1..Len(vector) :
                     \E f \in 1..Len(files) :
                        /\ files[f].name = format(vector[i].properties.NAMEABBR)
                        /\ \E p \in 1..Len(files[f].features) :
                              files[f].features[p] = vector[i]
                        /\ \A g \in 1..Len(files) :
                              (\E p \in 1..Len(files[g].features) :
                                    files[g].features[p] = vector[i])
                                  => g = f
               /\ \A f \in 1..Len(files) :
                     \A p, q \in 1..Len(files[f].features) :
                        /\ files[f].features[p].properties.NAMEABBR
                              = files[f].features[q].properties.NAMEABBR
                        /\ p < q => files[f].features[p].id < files[f].features[q].id
               /\ total[Len(files)] = Len(vector)

====
